---- MODULE Spec2Model ----
(***************************************************************************)
(* The server-side world of rustcraft: ChunkStore, ActionStore, Branch     *)
(* validation and merge, and the World event handler with the outbound     *)
(* event stream it produces.                                               *)
(*                                                                         *)
(* The world is modelled in two dimensions, <<x, y>>: y is the vertical    *)
(* axis (the only axis the code treats specially: Vector3::y(), Y_RANGE),  *)
(* x stands for the two horizontal axes.  A chunk is DIM x DIM voxels.     *)
(*                                                                         *)
(* The module also holds the streaming bridge of the server binary (the    *)
(* accept loop, the three threads of a connection and the queues they      *)
(* share).                                                                 *)
(***************************************************************************)
EXTENDS Integers, Sequences, FiniteSets, TLC

VARIABLES
    chunks,     \* World.chunks : chunk coords -> Chunk (the ChunkStore map)
    actions,    \* World.actions: chunk coords -> (block coords -> BlockAction)
    light,      \* World.light, abstracted to the operations applied to it
    hover,      \* World.hover  : <<>> (None) or <<coords, normal>>
    player,     \* Player {prev, curr, ray} and whether the session has started
    requested,  \* chunk coords World::generate has ever been asked for
    out,        \* events handed to proxy.send_event by the last handled event
    panic,      \* whether an unreachable!() or a failed assertion was reached
    last,       \* the last world event handled, with its inputs
    nevents,    \* number of client events handled so far
    tried,      \* the events the last handler had to send, each with whether
                \* it was built from the world the handler left, light included
    proxy,      \* number of further events the receiver of the proxy takes
                \* before it is gone, Unlimited when it outlives the session
    client_rx,           \* the intent queue: records the readers forwarded
    priority_server_rx,  \* the priority queue of outbound records
    server_rx,           \* the bulk queue of outbound records
    connections,         \* per accepted connection: its three threads and streams
    server,     \* "running", or "dropped" once the simulation has unwound
    enqueued    \* number of records the simulation has enqueued so far

world_vars == <<chunks, actions, light, hover, player, requested, out, panic, nevents,
                tried, proxy>>

bridge_vars == <<client_rx, priority_server_rx, server_rx, connections, server, enqueued>>

vars == <<chunks, actions, light, hover, player, requested, out, panic, last, nevents,
          tried, proxy,
          client_rx, priority_server_rx, server_rx, connections, server, enqueued>>

-----------------------------------------------------------------------------
(* Bounds and program constants *)

\* Chunk::DIM, scaled down (the program uses 16).
DIM == 2

\* Number of client events in a behaviour.
MaxEvents == 4

\* World::Y_RANGE = -4..20 (chunk y coordinates, end exclusive).
Y_RANGE_START == -4
Y_RANGE_END == 20
Y_RANGE == Y_RANGE_START .. (Y_RANGE_END - 1)

\* SERVER_CONFIG.player.reach, in voxels along the ray.
Reach == 2

\* The client's render distance: the radius of a WorldArea, in chunks.
RenderDistance == 1

None == <<>>

\* The proxy of a receiver that is never dropped.
Unlimited == -1

-----------------------------------------------------------------------------
(* Points and vectors *)

Add(p, q) == <<p[1] + q[1], p[2] + q[2]>>
Sub(p, q) == <<p[1] - q[1], p[2] - q[2]>>
Neg(p) == <<0 - p[1], 0 - p[2]>>
Scale(k, p) == <<k * p[1], k * p[2]>>

\* Vector3::y()
VectorY == <<0, 1>>

\* utils::chunk_coords : floor division of every component by Chunk::DIM
chunk_coords(p) == <<p[1] \div DIM, p[2] \div DIM>>

\* utils::block_coords : the remainder, always in 0..DIM-1
block_coords(p) == <<p[1] % DIM, p[2] % DIM>>

\* utils::coords : chunk coords and block coords back to world coords
coords(cc, bc) == <<cc[1] * DIM + bc[1], cc[2] * DIM + bc[2]>>

\* utils::magnitude_squared
magnitude_squared(p, q) ==
    (p[1] - q[1]) * (p[1] - q[1]) + (p[2] - q[2]) * (p[2] - q[2])

\* Chunk::points
ChunkPoints == (0 .. DIM - 1) \X (0 .. DIM - 1)

\* BlockArea::deltas : every delta with components in -PADDING..PADDING
BlockAreaDeltas == (-1 .. 1) \X (-1 .. 1)

\* ChunkArea::chunk_deltas : the chunk itself and its neighbours
ChunkAreaDeltas == (-1 .. 1) \X (-1 .. 1)

\* Lexicographic order on points, used to break the ties of a sort.
PointLess(p, q) == p[1] < q[1] \/ (p[1] = q[1] /\ p[2] < q[2])

MinPoint(S) == CHOOSE p \in S : \A q \in S : q = p \/ PointLess(p, q)

\* The orders in which the iterator of a hash set can yield its elements:
\* every enumeration of the set.
RECURSIVE Orders(_)
Orders(S) ==
    IF S = {} THEN {<<>>}
    ELSE UNION {{<<p>> \o rest : rest \in Orders(S \ {p})} : p \in S}

EmptyMap == <<>>

\* The function f as an explicit table of its values.
Table(f) == f @@ EmptyMap

\* The map f with key k bound to v.
Put(f, k, v) == (k :> v) @@ f

-----------------------------------------------------------------------------
(* Block and BlockAction *)

\* enum Block
Blocks == {"Air", "Sand", "Glowstone", "GlassMagenta", "GlassCyan"}

\* BlockData::valid_surface : the block this block has to be placed on, "None"
\* when it declares none.  The table BLOCK_DATA is not part of the sources;
\* here Glowstone declares Sand and GlassMagenta declares Glowstone, so that
\* the surface rule applies to some blocks and a chain of dependent blocks
\* exists.
valid_surface(block) ==
    CASE block = "Glowstone" -> "Sand"
      [] block = "GlassMagenta" -> "Glowstone"
      [] OTHER -> "None"

Place(block) == [kind |-> "Place", block |-> block]
Destroy == [kind |-> "Destroy", block |-> "Air"]

\* Block::place
BlockPlace(self, block) ==
    IF self = "Air" /\ block # "Air"
    THEN [ok |-> TRUE, block |-> block]
    ELSE [ok |-> FALSE, block |-> self]

\* Block::destroy
BlockDestroy(self) ==
    IF self # "Air"
    THEN [ok |-> TRUE, block |-> "Air"]
    ELSE [ok |-> FALSE, block |-> self]

\* Block::apply : the block after the action and whether it changed
BlockApply(self, action) ==
    IF action.kind = "Place" THEN BlockPlace(self, action.block)
    ELSE BlockDestroy(self)

\* Block::is_action_valid : would Block::apply change the block
BlockIsActionValid(self, action) ==
    IF action.kind = "Place" THEN self = "Air" /\ action.block # "Air"
    ELSE self # "Air"

\* Block::apply_unchecked : the block after the action, no validity test
BlockApplyUnchecked(self, action) ==
    IF action.kind = "Place" THEN action.block ELSE "Air"

-----------------------------------------------------------------------------
(* Chunk *)

NonAir(b) == IF b # "Air" THEN 1 ELSE 0

\* BlockData::is_glowing : the block emits light.  BLOCK_DATA is not part of
\* the sources; here Glowstone is the block that glows.
is_glowing(block) == block = "Glowstone"

Glowing(b) == IF is_glowing(b) THEN 1 ELSE 0

\* Arithmetic of a u16 counter.
U16(n) == n % 65536

\* Chunk::default : all air, counts zero
ChunkDefault ==
    [blocks |-> Table([p \in ChunkPoints |-> "Air"]), non_air_count |-> 0,
     glowing_count |-> 0]

\* Chunk::from_fn : the grid f with the counts computed from it
ChunkFromFn(f) ==
    [blocks |-> Table(f),
     non_air_count |-> U16(Cardinality({p \in ChunkPoints : f[p] # "Air"})),
     glowing_count |-> U16(Cardinality({p \in ChunkPoints : is_glowing(f[p])}))]

\* Chunk::is_empty
ChunkIsEmpty(chunk) == chunk.non_air_count = 0

\* Chunk::adjust_counts that adds the new block and forgets the old one.
ChunkAdjustCountsAddOnly(chunk, prev, curr) ==
    [chunk EXCEPT !.non_air_count = U16(@ + NonAir(curr)),
                  !.glowing_count = U16(@ + Glowing(curr))]

\* Chunk::adjust_counts : each counter loses the old block and gains the new
ChunkAdjustCounts(chunk, prev, curr) ==
    [chunk EXCEPT !.non_air_count = U16(U16(@ - NonAir(prev)) + NonAir(curr)),
                  !.glowing_count = U16(U16(@ - Glowing(prev)) + Glowing(curr))]

\* Chunk::apply without the validity test of Block::apply: the action is
\* applied to whatever block is there.
ChunkApplyAlways(chunk, bc, action) ==
    LET prev == chunk.blocks[bc]
        curr == BlockApplyUnchecked(prev, action)
    IN  [ok |-> TRUE,
         chunk |-> ChunkAdjustCounts([chunk EXCEPT !.blocks[bc] = curr], prev, curr)]

\* Chunk::apply : [ok, chunk]
ChunkApply(chunk, bc, action) ==
    LET prev == chunk.blocks[bc]
        res == BlockApply(prev, action)
    IN  IF res.ok
        THEN [ok |-> TRUE,
              chunk |-> ChunkAdjustCounts([chunk EXCEPT !.blocks[bc] = res.block],
                                          prev, res.block)]
        ELSE [ok |-> FALSE, chunk |-> chunk]

\* Chunk::apply_unchecked
ChunkApplyUnchecked(chunk, bc, action) ==
    LET prev == chunk.blocks[bc]
        curr == BlockApplyUnchecked(prev, action)
    IN  ChunkAdjustCounts([chunk EXCEPT !.blocks[bc] = curr], prev, curr)

-----------------------------------------------------------------------------
(* ChunkGenerator: a fixed, deterministic terrain *)

\* First voxel row above the vertical world bound.
TopY == Y_RANGE_END * DIM

\* The block the generator puts at a world voxel: a column of Sand, Glowstone
\* and GlassMagenta at x = 1 whose top is the only block of its chunk, one
\* Sand beside it,
\* and one Sand in the topmost voxel row of the world.
Terrain(p) ==
    CASE p = <<1, TopY - DIM - 2>> -> "Sand"
      [] p = <<1, TopY - DIM - 1>> -> "Glowstone"
      [] p = <<1, TopY - DIM>> -> "GlassMagenta"
      [] p = <<DIM, TopY - DIM - 1>> -> "Sand"
      [] p = <<DIM, TopY - 1>> -> "Sand"
      [] OTHER -> "Air"

\* ChunkGenerator::generate
GeneratorGenerate(cc) == ChunkFromFn([bc \in ChunkPoints |-> Terrain(coords(cc, bc))])

-----------------------------------------------------------------------------
(* ChunkStore *)

\* ChunkStore::contains
StoreContains(store, cc) == cc \in DOMAIN store

\* ChunkStore::block : air for a voxel whose chunk is absent
StoreBlock(store, p) ==
    IF StoreContains(store, chunk_coords(p))
    THEN store[chunk_coords(p)].blocks[block_coords(p)]
    ELSE "Air"

\* ChunkStore::insert : traps when the coordinate is occupied
StoreInsertTraps(store, cc) == StoreContains(store, cc)

-----------------------------------------------------------------------------
(* ActionStore *)

\* ActionStore::actions : the block coords -> action map logged for a chunk
ActionStoreActions(store, cc) ==
    IF cc \in DOMAIN store THEN store[cc] ELSE EmptyMap

\* ActionStore::insert : the value it returns, the action the voxel had
ActionStoreInsertReturned(store, p, action) ==
    IF chunk_coords(p) \in DOMAIN store
       /\ block_coords(p) \in DOMAIN store[chunk_coords(p)]
    THEN <<store[chunk_coords(p)][block_coords(p)]>>
    ELSE None

\* ActionStore::insert replacing the chunk's map by the new entry alone.
ActionStoreInsertAlone(store, p, action) ==
    Put(store, chunk_coords(p), Put(EmptyMap, block_coords(p), action))

\* ActionStore::insert keeping the action already logged for the voxel.
ActionStoreInsertFirstWins(store, p, action) ==
    IF chunk_coords(p) \in DOMAIN store
       /\ block_coords(p) \in DOMAIN store[chunk_coords(p)]
    THEN store
    ELSE Put(store, chunk_coords(p),
             Put(ActionStoreActions(store, chunk_coords(p)), block_coords(p), action))

\* ActionStore::insert : last write wins per voxel
ActionStoreInsert(store, p, action) ==
    Put(store, chunk_coords(p),
        Put(ActionStoreActions(store, chunk_coords(p)), block_coords(p), action))

\* ActionStore::insert of every <<voxel, action>> pair of a list of hits
RECURSIVE ActionStoreInsertAll(_, _)
ActionStoreInsertAll(store, hits) ==
    IF hits = {} THEN store
    ELSE LET h == CHOOSE x \in hits :
                      \A y \in hits : y[1] = x[1] \/ PointLess(x[1], y[1])
         IN  ActionStoreInsertAll(ActionStoreInsert(store, h[1], h[2]), hits \ {h})

-----------------------------------------------------------------------------
(* World::generate *)

\* chunk.apply_unchecked for every logged action of the chunk
RECURSIVE Replay(_, _, _)
Replay(chunk, acts, todo) ==
    IF todo = {} THEN chunk
    ELSE LET bc == MinPoint(todo)
         IN  Replay(ChunkApplyUnchecked(chunk, bc, acts[bc]), acts, todo \ {bc})

\* The generated chunk with the logged actions replayed onto it.
Regenerated(log, cc) ==
    LET acts == ActionStoreActions(log, cc)
    IN  Replay(GeneratorGenerate(cc), acts, DOMAIN acts)

\* World::generate without the test that the coordinate is in the store.
WorldGenerateStoredToo(store, log, cc) ==
    LET chunk == Regenerated(log, cc)
    IN  IF ~ChunkIsEmpty(chunk) THEN <<chunk>> ELSE None

\* World::generate without the replay of the logged actions.
WorldGenerateUnreplayed(store, log, cc) ==
    IF StoreContains(store, cc) THEN None
    ELSE LET chunk == GeneratorGenerate(cc)
         IN  IF ~ChunkIsEmpty(chunk) THEN <<chunk>> ELSE None

\* World::generate : None when present or when the replayed chunk is empty
WorldGenerate(store, log, cc) ==
    IF StoreContains(store, cc) THEN None
    ELSE LET chunk == Regenerated(log, cc)
         IN  IF ~ChunkIsEmpty(chunk) THEN <<chunk>> ELSE None

\* World::par_insert_many : every point is generated against the store as it
\* was, then the generated chunks are inserted one by one.
ParInsertMany(store, log, points) ==
    LET generated == Table([cc \in points |-> WorldGenerate(store, log, cc)])
        gen == {cc \in points : generated[cc] # None}
    IN  [chunks |-> Table([cc \in (DOMAIN store) \cup gen |->
                              IF cc \in gen THEN generated[cc][1] ELSE store[cc]]),
         inserts |-> gen,
         trapped |-> \E cc \in gen : StoreInsertTraps(store, cc)]

-----------------------------------------------------------------------------
(* Branch *)

\* Branch::default
BranchDefault == [map |-> EmptyMap, unreachable |-> FALSE]

\* Branch::insert : the and_modify(|_| unreachable!()) arm is recorded in the
\* unreachable flag
BranchInsert(branch, p, action) ==
    LET cc == chunk_coords(p)
        bc == block_coords(p)
        old == IF cc \in DOMAIN branch.map THEN branch.map[cc] ELSE EmptyMap
    IN  IF bc \in DOMAIN old
        THEN [branch EXCEPT !.unreachable = TRUE]
        ELSE [branch EXCEPT !.map = Put(branch.map, cc, Put(old, bc, action))]

\* Branch::is_action_valid without the test that the normal is Vector3::y().
BranchIsActionValidAnyNormal(branch, store, p, normal, action) ==
    IF chunk_coords(p)[2] \in Y_RANGE
    THEN IF action.kind = "Place"
         THEN IF valid_surface(action.block) # "None"
              THEN [ok |-> StoreBlock(store, Sub(p, normal)) = valid_surface(action.block),
                    branch |-> branch]
              ELSE [ok |-> TRUE, branch |-> branch]
         ELSE LET top == Add(p, VectorY)
              IN  IF valid_surface(StoreBlock(store, top)) # "None"
                  THEN [ok |-> TRUE, branch |-> BranchInsert(branch, top, Destroy)]
                  ELSE [ok |-> TRUE, branch |-> branch]
    ELSE [ok |-> FALSE, branch |-> branch]

\* Branch::is_action_valid without the test of World::Y_RANGE.
BranchIsActionValidUnbounded(branch, store, p, normal, action) ==
    IF action.kind = "Place"
    THEN IF valid_surface(action.block) # "None"
         THEN [ok |-> normal = VectorY
                      /\ StoreBlock(store, Sub(p, normal)) = valid_surface(action.block),
               branch |-> branch]
         ELSE [ok |-> TRUE, branch |-> branch]
    ELSE LET top == Add(p, VectorY)
         IN  IF valid_surface(StoreBlock(store, top)) # "None"
             THEN [ok |-> TRUE, branch |-> BranchInsert(branch, top, Destroy)]
             ELSE [ok |-> TRUE, branch |-> branch]

\* Branch::is_action_valid recording the cascaded Destroy at the requested
\* voxel itself when that voxel's block declares a valid surface.
BranchIsActionValidCascadesSelf(branch, store, p, normal, action) ==
    IF chunk_coords(p)[2] \in Y_RANGE
    THEN IF action.kind = "Place"
         THEN IF valid_surface(action.block) # "None"
              THEN [ok |-> normal = VectorY
                           /\ StoreBlock(store, Sub(p, normal)) = valid_surface(action.block),
                    branch |-> branch]
              ELSE [ok |-> TRUE, branch |-> branch]
         ELSE IF valid_surface(StoreBlock(store, p)) # "None"
              THEN [ok |-> TRUE, branch |-> BranchInsert(branch, p, Destroy)]
              ELSE [ok |-> TRUE, branch |-> branch]
    ELSE [ok |-> FALSE, branch |-> branch]

\* Branch::is_action_valid : [ok, branch]; a Destroy also records a Destroy
\* of the voxel above when that voxel's block declares a valid surface
BranchIsActionValid(branch, store, p, normal, action) ==
    IF chunk_coords(p)[2] \in Y_RANGE
    THEN IF action.kind = "Place"
         THEN IF valid_surface(action.block) # "None"
              THEN [ok |-> normal = VectorY
                           /\ StoreBlock(store, Sub(p, normal)) = valid_surface(action.block),
                    branch |-> branch]
              ELSE [ok |-> TRUE, branch |-> branch]
         ELSE LET top == Add(p, VectorY)
              IN  IF valid_surface(StoreBlock(store, top)) # "None"
                  THEN [ok |-> TRUE, branch |-> BranchInsert(branch, top, Destroy)]
                  ELSE [ok |-> TRUE, branch |-> branch]
    ELSE [ok |-> FALSE, branch |-> branch]

\* Branch::apply : [ok, branch]
BranchApply(branch, store, p, normal, action) ==
    LET valid == BranchIsActionValid(branch, store, p, normal, action)
    IN  IF valid.ok
        THEN [ok |-> TRUE, branch |-> BranchInsert(valid.branch, p, action)]
        ELSE [ok |-> FALSE, branch |-> valid.branch]

\* The Occupied arm's loop pushing a hit for every action, whatever
\* chunk.apply returned.
RECURSIVE ApplyAllHitsAll(_, _, _)
ApplyAllHitsAll(chunk, acts, todo) ==
    IF todo = {} THEN [chunk |-> chunk, hits |-> {}]
    ELSE LET bc == MinPoint(todo)
             res == ChunkApply(chunk, bc, acts[bc])
             rest == ApplyAllHitsAll(res.chunk, acts, todo \ {bc})
         IN  [chunk |-> rest.chunk, hits |-> rest.hits \cup {bc}]

\* The Occupied arm's loop of Branch::merge: chunk.apply for every action of
\* the chunk; hits are the block coords whose apply returned true.
RECURSIVE ApplyAll(_, _, _)
ApplyAll(chunk, acts, todo) ==
    IF todo = {} THEN [chunk |-> chunk, hits |-> {}]
    ELSE LET bc == MinPoint(todo)
             res == ChunkApply(chunk, bc, acts[bc])
             rest == ApplyAll(res.chunk, acts, todo \ {bc})
         IN  [chunk |-> rest.chunk,
              hits |-> rest.hits \cup (IF res.ok THEN {bc} ELSE {})]

\* Branch::merge without the removal of an emptied chunk.
MergeRemovesNever(chunk) == FALSE

\* Whether the Occupied arm of Branch::merge removes a chunk after its actions.
MergeRemoves(chunk) == ChunkIsEmpty(chunk)

\* The Vacant arm of Branch::merge without its filter: every action is kept.
MergeVacantFilterAll(acts) == DOMAIN acts

\* The Vacant arm's filter of Branch::merge: the actions valid on an air block.
MergeVacantFilter(acts) == {bc \in DOMAIN acts : BlockIsActionValid("Air", acts[bc])}

\* The loop body of Branch::merge with an Occupied arm that removes an
\* emptied chunk without recording the removal.
MergeChunkRemovalUnrecorded(store, cc, acts) ==
    IF StoreContains(store, cc)
    THEN LET res == ApplyAll(store[cc], acts, DOMAIN acts)
         IN  IF MergeRemoves(res.chunk)
             THEN [chunk |-> None, hits |-> res.hits, insert |-> FALSE, removal |-> FALSE]
             ELSE [chunk |-> <<res.chunk>>, hits |-> res.hits,
                   insert |-> FALSE, removal |-> FALSE]
    ELSE LET valid == MergeVacantFilter(acts)
         IN  IF valid # {}
             THEN [chunk |-> <<Replay(ChunkDefault, acts, valid)>>, hits |-> valid,
                   insert |-> TRUE, removal |-> FALSE]
             ELSE [chunk |-> None, hits |-> {}, insert |-> FALSE, removal |-> FALSE]

\* One iteration of the loop of Branch::merge, for the chunk coordinate cc:
\* the chunk afterwards (None when absent), the hit block coords and whether
\* the coordinate is an insert or a removal.
MergeChunk(store, cc, acts) ==
    IF StoreContains(store, cc)
    THEN LET res == ApplyAll(store[cc], acts, DOMAIN acts)
         IN  IF MergeRemoves(res.chunk)
             THEN [chunk |-> None, hits |-> res.hits, insert |-> FALSE, removal |-> TRUE]
             ELSE [chunk |-> <<res.chunk>>, hits |-> res.hits,
                   insert |-> FALSE, removal |-> FALSE]
    ELSE LET valid == MergeVacantFilter(acts)
         IN  IF valid # {}
             THEN [chunk |-> <<Replay(ChunkDefault, acts, valid)>>, hits |-> valid,
                   insert |-> TRUE, removal |-> FALSE]
             ELSE [chunk |-> None, hits |-> {}, insert |-> FALSE, removal |-> FALSE]

\* WorldLight, abstracted: the chunk coords handed to it as inserts and the
\* voxels light.apply was invoked for.  Light values are not kept: the
\* voxels whose light changed (the result of light.apply and of
\* light.par_insert_many) are chosen among the voxels a propagation reaches.
LightDefault == [inserts |-> {}, applied |-> {}]

\* The voxels next to some voxels, along an axis.
LightArea(voxels) ==
    {<<p[1] + d[1], p[2] + d[2]>> :
         p \in voxels, d \in {<<1, 0>>, <<-1, 0>>, <<0, 1>>, <<0, -1>>}}

\* The voxels a propagation over an area can report as changed.  The light
\* values are not kept, so a propagation changes the light of no voxel, of
\* any one voxel of the area, or of all of them.
LightChanged(area) == {{}} \cup {{v} : v \in area} \cup {area}

\* WorldLight::extend_placeholders for the columns of some chunks.
LightExtendPlaceholders(l, points) == [l EXCEPT !.inserts = @ \cup points]

\* WorldLight::par_insert_many : the light after the chunks were lit, with
\* the voxels whose light changed: none, or the voxels of the chunks and
\* next to them.  The sets in between lie in the same chunks.
LightInsertMany(l, points) ==
    LET voxels == {coords(cc, bc) : cc \in points, bc \in ChunkPoints}
    IN  {[light |-> [l EXCEPT !.inserts = @ \cup points], changed |-> c] :
             c \in {{}, voxels \cup LightArea(voxels)}}

\* WorldLight::apply for one hit : the light after the propagation seeded
\* from the hit voxel, with the voxels whose light changed, next to the hit.
LightApply(l, voxel) ==
    {[light |-> [l EXCEPT !.applied = @ \cup {voxel}], changed |-> c] :
         c \in LightChanged(LightArea({voxel}))}

\* light.apply called for one hit after the other, each on the light the
\* previous call left, what every call returns being chained.
RECURSIVE LightApplyAll(_, _)
LightApplyAll(l, voxels) ==
    IF voxels = {} THEN {[light |-> l, changed |-> {}]}
    ELSE LET v == MinPoint(voxels)
         IN  UNION {{[light |-> rest.light, changed |-> first.changed \cup rest.changed] :
                         rest \in LightApplyAll(first.light, voxels \ {v})} :
                        first \in LightApply(l, v)}

\* Branch::merge clearing the logged actions of every chunk it removes.
BranchMergeForgetsRemoved(branch, w) ==
    LET res == Table([cc \in DOMAIN branch.map |->
                          MergeChunk(w.chunks, cc, branch.map[cc])])
        inserts == {cc \in DOMAIN res : res[cc].insert}
        removals == {cc \in DOMAIN res : res[cc].removal}
        hits == UNION {{<<coords(cc, bc), branch.map[cc][bc]>> : bc \in res[cc].hits} :
                           cc \in DOMAIN res}
        voxels == {h[1] : h \in hits}
        logged == ActionStoreInsertAll(w.actions, hits)
        merged == [w EXCEPT
                     !.chunks = Table([cc \in {c \in (DOMAIN w.chunks) \cup (DOMAIN res) :
                                                   c \in DOMAIN res => res[c].chunk # None} |->
                                          IF cc \in DOMAIN res THEN res[cc].chunk[1]
                                          ELSE w.chunks[cc]]),
                     !.actions = Table([cc \in (DOMAIN logged) \ removals |-> logged[cc]])]
    IN  {[w |-> [merged EXCEPT !.light = lit.light],
          inserts |-> inserts,
          removals |-> removals,
          hits |-> voxels,
          block_updates |-> voxels \cup lit.changed] :
             lit \in LightApplyAll(LightExtendPlaceholders(w.light, inserts), voxels)}

\* Branch::merge : the world afterwards and the Changes triple (inserts,
\* removals, block updates), one for every choice of what the calls of
\* light.apply return; hits are the voxels of the local hits, which the
\* block updates hold together with the voxels light.apply returned for
\* each of them
BranchMerge(branch, w) ==
    LET res == Table([cc \in DOMAIN branch.map |->
                          MergeChunk(w.chunks, cc, branch.map[cc])])
        inserts == {cc \in DOMAIN res : res[cc].insert}
        removals == {cc \in DOMAIN res : res[cc].removal}
        hits == UNION {{<<coords(cc, bc), branch.map[cc][bc]>> : bc \in res[cc].hits} :
                           cc \in DOMAIN res}
        voxels == {h[1] : h \in hits}
        merged == [w EXCEPT
                     !.chunks = Table([cc \in {c \in (DOMAIN w.chunks) \cup (DOMAIN res) :
                                                   c \in DOMAIN res => res[c].chunk # None} |->
                                          IF cc \in DOMAIN res THEN res[cc].chunk[1]
                                          ELSE w.chunks[cc]]),
                     !.actions = ActionStoreInsertAll(w.actions, hits)]
    IN  {[w |-> [merged EXCEPT !.light = lit.light],
          inserts |-> inserts,
          removals |-> removals,
          hits |-> voxels,
          block_updates |-> voxels \cup lit.changed] :
             lit \in LightApplyAll(LightExtendPlaceholders(w.light, inserts), voxels)}

-----------------------------------------------------------------------------
(* WorldArea, Ray and Player *)

\* WorldArea : the chunk coordinates within radius of the center
WorldArea(center) == [center |-> center, radius |-> RenderDistance]

\* WorldArea::contains
AreaContains(area, cc) ==
    magnitude_squared(cc, area.center) <= area.radius * area.radius

\* WorldArea::points : the contained coordinates within the vertical bound
AreaPoints(area) ==
    {cc \in ((area.center[1] - area.radius) .. (area.center[1] + area.radius)) \X
            ((area.center[2] - area.radius) .. (area.center[2] + area.radius)) :
        AreaContains(area, cc) /\ cc[2] \in Y_RANGE}

\* WorldArea::par_exclusive_points : the points of curr that prev lacks
AreaExclusivePoints(curr, prev) ==
    {cc \in AreaPoints(curr) : ~AreaContains(prev, cc)}

\* The unit directions a ray is cast along.
Directions == {<<1, 0>>, <<-1, 0>>, <<0, 1>>, <<0, -1>>}

\* Ray::cast(reach) with find: the first voxel along the ray, within reach,
\* whose block has a hitbox (is not air); the normal is the face the ray
\* enters through.  None when there is no such voxel.
RayCast(store, ray) ==
    LET ks == {k \in 1 .. Reach :
                   StoreBlock(store, Add(ray.origin, Scale(k, ray.dir))) # "Air"}
    IN  IF ks = {} THEN None
        ELSE LET k == CHOOSE k \in ks : \A j \in ks : k <= j
             IN  <<Add(ray.origin, Scale(k, ray.dir)), Neg(ray.dir)>>

-----------------------------------------------------------------------------
(* Outbound events *)

ChunkLoaded(cc, important) ==
    [kind |-> "ChunkLoaded", coords |-> cc, hover |-> None, is_important |-> important]
ChunkUpdated(cc, important) ==
    [kind |-> "ChunkUpdated", coords |-> cc, hover |-> None, is_important |-> important]
ChunkUnloaded(cc) ==
    [kind |-> "ChunkUnloaded", coords |-> cc, hover |-> None, is_important |-> FALSE]
BlockHovered(h) ==
    [kind |-> "BlockHovered", coords |-> None, hover |-> h, is_important |-> FALSE]

\* World::send_loads / par_send_loads over a sequence of points
SendLoads(points, important) == [i \in 1 .. Len(points) |-> ChunkLoaded(points[i], important)]

\* World::send_updates / par_send_updates
SendUpdates(points, important) == [i \in 1 .. Len(points) |-> ChunkUpdated(points[i], important)]

\* World::send_unloads sending nothing.
SendUnloadsNever(points) == <<>>

\* World::send_unloads
SendUnloads(points) == [i \in 1 .. Len(points) |-> ChunkUnloaded(points[i])]

\* World::filter / par_filter
Filter(points, area) == {cc \in points : AreaContains(area, cc)}

-----------------------------------------------------------------------------
(* World *)

\* World::block_area_points
BlockAreaPoints(block_updates) ==
    {Add(p, d) : p \in block_updates, d \in BlockAreaDeltas}

\* World::chunk_area_points
ChunkAreaPoints(points) ==
    {Add(cc, d) : cc \in points, d \in ChunkAreaDeltas}

\* World::updates keeping the chunks that are sent as loads.
WorldUpdatesWithLoads(store, loads, unloads, block_updates, inserts) ==
    {cc \in {chunk_coords(p) : p \in BlockAreaPoints(block_updates)}
            \cup ChunkAreaPoints(inserts) :
        StoreContains(store, cc) /\ cc \notin unloads}

\* World::updates : the stored chunks around the block updates and the
\* inserts that are neither loads nor unloads
WorldUpdates(store, loads, unloads, block_updates, inserts) ==
    {cc \in {chunk_coords(p) : p \in BlockAreaPoints(block_updates)}
            \cup ChunkAreaPoints(inserts) :
        StoreContains(store, cc) /\ cc \notin loads /\ cc \notin unloads}

\* World::exclusive_points without the test that the store holds the chunk.
WorldExclusivePointsUnstored(store, prev, curr) ==
    {cc \in AreaPoints(curr) : AreaContains(curr, cc) /\ ~AreaContains(prev, cc)}

\* World::exclusive_points : the stored chunks of curr that prev lacks
WorldExclusivePoints(store, prev, curr) ==
    {cc \in AreaPoints(curr) :
        AreaContains(curr, cc) /\ ~AreaContains(prev, cc) /\ StoreContains(store, cc)}

\* World::par_light_up : extend_placeholders, then light.par_insert_many for
\* the inserted chunks, whose changed voxels are returned
ParLightUp(w, inserts) ==
    {[w |-> [w EXCEPT !.light = lit.light], block_updates |-> lit.changed] :
         lit \in LightInsertMany(LightExtendPlaceholders(w.light, inserts), inserts)}

\* The inserted chunks ordered with the farthest from the origin chunk first.
RECURSIVE SortFarthestFirst(_, _)
SortFarthestFirst(S, origin) ==
    IF S = {} THEN <<>>
    ELSE LET far == {p \in S : \A q \in S :
                        magnitude_squared(p, origin) >= magnitude_squared(q, origin)}
             p == MinPoint(far)
         IN  <<p>> \o SortFarthestFirst(S \ {p}, origin)

\* inserts.par_sort_unstable_by_key(magnitude_squared(coords, origin chunk))
RECURSIVE SortByDistance(_, _)
SortByDistance(S, origin) ==
    IF S = {} THEN <<>>
    ELSE LET near == {p \in S : \A q \in S :
                         magnitude_squared(p, origin) <= magnitude_squared(q, origin)}
             p == MinPoint(near)
         IN  <<p>> \o SortByDistance(S \ {p}, origin)

\* The world fields as one record.
World == [chunks |-> chunks, actions |-> actions, light |-> light,
          hover |-> hover, requested |-> requested]

\* The chunks and the light an event's data is built from.
WorldView(w) == [chunks |-> w.chunks, light |-> w.light]

\* The events a send builds from &self: each with the world it reads.
Reading(w, events) ==
    [i \in 1 .. Len(events) |-> [event |-> events[i], view |-> WorldView(w)]]

\* World::send_events with proxy.send_event(event).unwrap().
RECURSIVE SendEventsUnwrapped(_, _)
SendEventsUnwrapped(credit, events) ==
    IF events = <<>> THEN [sent |-> <<>>, credit |-> credit, trapped |-> FALSE]
    ELSE IF credit = 0 THEN [sent |-> <<>>, credit |-> 0, trapped |-> TRUE]
    ELSE LET rest == SendEventsUnwrapped(IF credit = Unlimited THEN Unlimited ELSE credit - 1,
                                         Tail(events))
         IN  [rest EXCEPT !.sent = <<Head(events)>> \o @]

\* World::send_events : the events are sent in order, and the loop breaks
\* at the first event the proxy refuses.  A proxy whose receiver is gone
\* refuses every later send, so the sends of one handler are given as one
\* sequence.
RECURSIVE SendEvents(_, _)
SendEvents(credit, events) ==
    IF events = <<>> THEN [sent |-> <<>>, credit |-> credit, trapped |-> FALSE]
    ELSE IF credit = 0 THEN [sent |-> <<>>, credit |-> 0, trapped |-> FALSE]
    ELSE LET rest == SendEvents(IF credit = Unlimited THEN Unlimited ELSE credit - 1,
                                Tail(events))
         IN  [rest EXCEPT !.sent = <<Head(events)>> \o @]

\* The handler returns: the world it leaves, the events it sent, the world
\* event it handled and the player it was handled for.
Return(event, pl, w, events, reached) ==
    /\ player' = pl
    /\ chunks' = w.chunks
    /\ actions' = w.actions
    /\ light' = w.light
    /\ hover' = w.hover
    /\ requested' = w.requested
    /\ \E s \in {SendEvents(proxy, [i \in 1 .. Len(events) |-> events[i].event])} :
           /\ out' = s.sent
           /\ proxy' = s.credit
           /\ panic' = (reached \/ s.trapped)
    /\ tried' = [i \in 1 .. Len(events) |->
                     [event |-> events[i].event, fresh |-> events[i].view = WorldView(w)]]
    /\ last' = event
    /\ nevents' = nevents + 1
    /\ UNCHANGED bridge_vars

\* handle(BlockHoverRequested) sending BlockHovered whatever the cached hover.
BlockHoverRequestedAlwaysSends(w, ray) ==
    LET h == RayCast(w.chunks, ray)
    IN  [w |-> [w EXCEPT !.hover = h], out |-> <<BlockHovered(h)>>]

\* handle(BlockHoverRequested) : the cast replaces the cached hover, and
\* BlockHovered is sent when it differs from the cached one
BlockHoverRequested(w, ray) ==
    LET h == RayCast(w.chunks, ray)
    IN  [w |-> [w EXCEPT !.hover = h],
         out |-> IF w.hover # h THEN <<BlockHovered(h)>> ELSE <<>>]

HandleBlockHoverRequested(event, pl) ==
    \E h \in {BlockHoverRequested(World, pl.ray)} :
        Return(event, pl, h.w, Reading(h.w, h.out), FALSE)

\* The sends of World::apply in the order of handle(WorldAreaChanged).
ApplySendsUnloadsFirst(updates, removals, inserts) ==
    {SendUnloads(r) \o SendLoads(i, TRUE) \o SendUpdates(u, TRUE) :
        u \in Orders(updates), r \in Orders(removals), i \in Orders(inserts)}

\* The three sends that end World::apply, in the order of the code.  Each
\* send iterates an FxHashSet, whose order depends on the hasher, the
\* capacity and the insertion history: the value is the set of the event
\* sequences the three loops can produce, one for every order of each set.
ApplySends(updates, removals, inserts) ==
    {SendUpdates(u, TRUE) \o SendUnloads(r) \o SendLoads(i, TRUE) :
        u \in Orders(updates), r \in Orders(removals), i \in Orders(inserts)}

\* World::apply merging the requested action whatever Branch::apply returned.
WorldApplyUnvalidated(event, pl, p, normal, action) ==
    \E b \in {BranchApply(BranchDefault, chunks, p, normal, action)} :
    \E branch \in {IF b.ok THEN b.branch ELSE BranchInsert(b.branch, p, action)} :
    \E m \in {[w |-> c.w, inserts |-> c.inserts, removals |-> c.removals,
               updates |-> WorldUpdates(c.w.chunks, c.inserts, c.removals,
                                        c.block_updates, {})] :
                  c \in BranchMerge(branch, World)} :
    \E h \in {BlockHoverRequested(m.w, pl.ray)} :
    \E sends \in ApplySends(Filter(m.updates, pl.curr), Filter(m.removals, pl.curr),
                            Filter(m.inserts, pl.curr)) :
        Return(event, pl, h.w, Reading(h.w, h.out \o sends), branch.unreachable)

\* World::apply : validate a Branch, merge it, compute the updates from the
\* Changes of the merge, recompute the hover, send
WorldApply(event, pl, p, normal, action) ==
    \E b \in {BranchApply(BranchDefault, chunks, p, normal, action)} :
        IF b.ok
        THEN \E m \in {[w |-> c.w, inserts |-> c.inserts, removals |-> c.removals,
                        updates |-> WorldUpdates(c.w.chunks, c.inserts, c.removals,
                                                 c.block_updates, {})] :
                           c \in BranchMerge(b.branch, World)} :
             \E h \in {BlockHoverRequested(m.w, pl.ray)} :
             \E sends \in ApplySends(Filter(m.updates, pl.curr),
                                     Filter(m.removals, pl.curr),
                                     Filter(m.inserts, pl.curr)) :
                 Return(event, pl, h.w, Reading(h.w, h.out \o sends),
                        b.branch.unreachable)
        ELSE Return(event, pl, World, <<>>, b.branch.unreachable)

\* handle(InitialRenderRequested) sending the loads before par_light_up.
HandleInitialRenderRequestedUnlit(event, pl) ==
    \E ins \in {ParInsertMany(chunks, actions, AreaPoints(pl.curr))} :
    \E w0 \in {[World EXCEPT !.chunks = ins.chunks,
                             !.requested = @ \cup AreaPoints(pl.curr)]} :
    \E w1 \in {lit.w : lit \in ParLightUp(w0, ins.inserts)} :
    \E h \in {BlockHoverRequested(w1, pl.ray)} :
        Return(event, pl, h.w,
               Reading(w0, SendLoads(SortByDistance(Filter(ins.inserts, pl.curr),
                                                    chunk_coords(pl.ray.origin)),
                                     FALSE))
                   \o Reading(h.w, h.out),
               ins.trapped)

\* handle(InitialRenderRequested)
HandleInitialRenderRequested(event, pl) ==
    \E ins \in {ParInsertMany(chunks, actions, AreaPoints(pl.curr))} :
    \E w1 \in {lit.w : lit \in ParLightUp([World EXCEPT
                                               !.chunks = ins.chunks,
                                               !.requested = @ \cup AreaPoints(pl.curr)],
                                           ins.inserts)} :
    \E h \in {BlockHoverRequested(w1, pl.ray)} :
        Return(event, pl, h.w,
               Reading(h.w, h.out \o SendLoads(SortByDistance(Filter(ins.inserts, pl.curr),
                                                              chunk_coords(pl.ray.origin)),
                                               FALSE)),
               ins.trapped)

\* The sends of handle(WorldAreaChanged) with the loads before the unloads.
AreaChangedSendsLoadsFirst(unloads, loads, updates) ==
    {SendLoads(l, FALSE) \o SendUnloads(u) \o SendUpdates(d, FALSE) :
        u \in Orders(unloads), l \in Orders(loads), d \in Orders(updates)}

\* The three sends that end handle(WorldAreaChanged), in the order of the
\* code.  unloads, loads and updates are FxHashSets iterated in hash order:
\* the value is the set of the event sequences the three loops can produce.
AreaChangedSends(unloads, loads, updates) ==
    {SendUnloads(u) \o SendLoads(l, FALSE) \o SendUpdates(d, FALSE) :
        u \in Orders(unloads), l \in Orders(loads), d \in Orders(updates)}

\* handle(WorldAreaChanged) taking the unloaded chunks out of the store.
HandleWorldAreaChangedEvicting(event, pl) ==
    \E ins \in {ParInsertMany(chunks, actions, AreaExclusivePoints(pl.curr, pl.prev))} :
    \E loads \in {WorldExclusivePoints(ins.chunks, pl.prev, pl.curr)} :
    \E unloads \in {WorldExclusivePoints(ins.chunks, pl.curr, pl.prev)} :
    \E lit \in {[w |-> l.w,
                 updates |-> WorldUpdates(ins.chunks, loads, unloads, l.block_updates,
                                          ins.inserts)] :
                    l \in ParLightUp([World EXCEPT
                                        !.chunks = Table([cc \in (DOMAIN ins.chunks) \ unloads |->
                                                             ins.chunks[cc]]),
                                        !.requested = @ \cup AreaExclusivePoints(pl.curr, pl.prev)],
                                     ins.inserts)} :
    \E h \in {BlockHoverRequested(lit.w, pl.ray)} :
    \E sends \in AreaChangedSends(unloads, loads, Filter(lit.updates, pl.curr)) :
        Return(event, pl, h.w, Reading(h.w, h.out \o sends), ins.trapped)

\* handle(WorldAreaChanged)
HandleWorldAreaChanged(event, pl) ==
    \E ins \in {ParInsertMany(chunks, actions, AreaExclusivePoints(pl.curr, pl.prev))} :
    \E loads \in {WorldExclusivePoints(ins.chunks, pl.prev, pl.curr)} :
    \E unloads \in {WorldExclusivePoints(ins.chunks, pl.curr, pl.prev)} :
    \E lit \in {[w |-> l.w,
                 updates |-> WorldUpdates(ins.chunks, loads, unloads, l.block_updates,
                                          ins.inserts)] :
                    l \in ParLightUp([World EXCEPT
                                        !.chunks = ins.chunks,
                                        !.requested = @ \cup AreaExclusivePoints(pl.curr, pl.prev)],
                                     ins.inserts)} :
    \E h \in {BlockHoverRequested(lit.w, pl.ray)} :
    \E sends \in AreaChangedSends(unloads, loads, Filter(lit.updates, pl.curr)) :
        Return(event, pl, h.w, Reading(h.w, h.out \o sends), ins.trapped)

\* handle(BlockPlaced) placing at the ray's origin when there is no hover.
HandleBlockPlacedWithoutHover(event, pl) ==
    IF hover # None
    THEN WorldApply(event, pl, Add(hover[1], hover[2]), hover[2], Place(event.block))
    ELSE WorldApply(event, pl, pl.ray.origin, VectorY, Place(event.block))

\* handle(BlockPlaced) : a no-op without a hover
HandleBlockPlaced(event, pl) ==
    IF hover # None
    THEN WorldApply(event, pl, Add(hover[1], hover[2]), hover[2], Place(event.block))
    ELSE Return(event, pl, World, <<>>, FALSE)

\* handle(BlockDestroyed) : a no-op without a hover
HandleBlockDestroyed(event, pl) ==
    IF hover # None
    THEN WorldApply(event, pl, hover[1], hover[2], Destroy)
    ELSE Return(event, pl, World, <<>>, FALSE)

\* WorldEvent::new : the world event a client event becomes for a player
WorldEventNew(client, block, pl) ==
    CASE client = "InitialRenderRequested" ->
            [kind |-> "InitialRenderRequested", block |-> "Air"]
      [] client = "PlayerPositionChanged" /\ pl.curr # pl.prev ->
            [kind |-> "WorldAreaChanged", block |-> "Air"]
      [] client = "PlayerPositionChanged" /\ pl.curr = pl.prev ->
            [kind |-> "BlockHoverRequested", block |-> "Air"]
      [] client = "PlayerOrientationChanged" ->
            [kind |-> "BlockHoverRequested", block |-> "Air"]
      [] client = "BlockPlaced" -> [kind |-> "BlockPlaced", block |-> block]
      [] client = "BlockDestroyed" -> [kind |-> "BlockDestroyed", block |-> "Air"]

\* EventHandler::handle for World : one event, handled to completion
WorldHandle(event, pl) ==
    /\ nevents < MaxEvents
    /\ panic = FALSE
    /\ CASE event.kind = "InitialRenderRequested" -> HandleInitialRenderRequested(event, pl)
         [] event.kind = "WorldAreaChanged" -> HandleWorldAreaChanged(event, pl)
         [] event.kind = "BlockHoverRequested" -> HandleBlockHoverRequested(event, pl)
         [] event.kind = "BlockPlaced" -> HandleBlockPlaced(event, pl)
         [] event.kind = "BlockDestroyed" -> HandleBlockDestroyed(event, pl)

-----------------------------------------------------------------------------
(* The streaming bridge of the server binary: queues and connections *)

\* Number of connections the accept loop takes in a behaviour.
MaxConnections == 2

\* Number of records the simulation enqueues.
MaxRecords == 2

\* Number of intents the readers forward to the simulation.
MaxIntents == 1

Connections == 1 .. MaxConnections

\* A connection before it is accepted: no thread spawned, nothing written.
\* stream and priority_stream are the bytes that reached the two sockets,
\* buffer and priority_buffer those held by the BufWriters.  detected tells
\* that the reader saw the reset or the end of the stream.  read is what
\* the reader's last deserialize_from returned and the reader has yet to act
\* on ("None" while it waits in the read); taken and priority_taken are the
\* records the writers received from their queues and have yet to write.
Unaccepted ==
    [priority_writer |-> "unborn", writer |-> "unborn", reader |-> "unborn",
     detected |-> FALSE, read |-> "None",
     taken |-> <<>>, priority_taken |-> <<>>,
     stream |-> <<>>, buffer |-> <<>>,
     priority_stream |-> <<>>, priority_buffer |-> <<>>]

\* main before the accept loop : three empty channels, the Server built
BridgeInit ==
    /\ client_rx = <<>>
    /\ priority_server_rx = <<>>
    /\ server_rx = <<>>
    /\ connections = [c \in Connections |-> Unaccepted]
    /\ server = "running"
    /\ enqueued = 0

-----------------------------------------------------------------------------
(* The state machine: one action per client event *)

\* The voxels the viewer's ray can start from: two chunk columns, from the
\* bottom of the terrain to above the vertical bound.
Positions == (0 .. 2 * DIM - 1) \X ((TopY - DIM - 2) .. (TopY + 1))

Init ==
    /\ chunks = EmptyMap
    /\ actions = EmptyMap
    /\ light = LightDefault
    /\ hover = None
    /\ player = [started |-> FALSE,
                 prev |-> WorldArea(<<0, 0>>),
                 curr |-> WorldArea(<<0, 0>>),
                 ray |-> [origin |-> <<0, 0>>, dir |-> <<1, 0>>]]
    /\ requested = {}
    /\ out = <<>>
    /\ tried = <<>>
    /\ proxy = Unlimited
    /\ panic = FALSE
    /\ last = [kind |-> "None", block |-> "Air"]
    /\ nevents = 0
    /\ BridgeInit

\* ClientEvent::InitialRenderRequested : the session starts with the
\* viewer's position and direction
InitialRenderRequested ==
    \E origin \in Positions, dir \in Directions :
        /\ ~player.started
        /\ \E pl \in {[started |-> TRUE,
                       prev |-> WorldArea(chunk_coords(origin)),
                       curr |-> WorldArea(chunk_coords(origin)),
                       ray |-> [origin |-> origin, dir |-> dir]]} :
               WorldHandle(WorldEventNew("InitialRenderRequested", "Air", pl), pl)

\* ClientEvent::PlayerPositionChanged : the viewer moves to a neighbouring
\* voxel and the area follows
PlayerPositionChanged ==
    \E delta \in Directions, origin \in Positions :
        /\ player.started
        /\ origin = Add(player.ray.origin, delta)
        /\ \E pl \in {[player EXCEPT !.prev = player.curr,
                                     !.curr = WorldArea(chunk_coords(origin)),
                                     !.ray.origin = origin]} :
               WorldHandle(WorldEventNew("PlayerPositionChanged", "Air", pl), pl)

\* ClientEvent::PlayerOrientationChanged
PlayerOrientationChanged ==
    \E dir \in Directions :
        /\ player.started
        /\ \E pl \in {[player EXCEPT !.ray.dir = dir]} :
               WorldHandle(WorldEventNew("PlayerOrientationChanged", "Air", pl), pl)

\* ClientEvent::BlockPlaced
BlockPlaced ==
    \E block \in Blocks :
        /\ player.started
        /\ WorldHandle(WorldEventNew("BlockPlaced", block, player), player)

\* ClientEvent::BlockDestroyed
BlockDestroyed ==
    /\ player.started
    /\ WorldHandle(WorldEventNew("BlockDestroyed", "Air", player), player)

Next ==
    \/ InitialRenderRequested
    \/ PlayerPositionChanged
    \/ PlayerOrientationChanged
    \/ BlockPlaced
    \/ BlockDestroyed

Spec == Init /\ [][Next]_vars

-----------------------------------------------------------------------------
(* Direct calls of Branch::merge, World::generate and ActionStore::insert *)

\* The number of calls in a run.
MaxCalls == 2

\* The voxels a Branch addresses: the only block of a chunk, an air voxel of
\* the same chunk, a block of a chunk with two blocks, and two voxels of a
\* chunk the generator leaves empty.
CallVoxels ==
    {<<1, TopY - DIM>>, <<0, TopY - DIM>>, <<1, TopY - DIM - 1>>,
     <<0, TopY - 3 * DIM>>, <<1, TopY - 3 * DIM>>}

CallActions == {Destroy, Place("Sand"), Place("Air")}

\* The Branch that holds the actions f assigns to its voxels.
BranchOf(f) ==
    [map |-> Table([cc \in {chunk_coords(v) : v \in DOMAIN f} |->
                       Table([bc \in {block_coords(v) : v \in {u \in DOMAIN f :
                                                                chunk_coords(u) = cc}} |->
                                 f[coords(cc, bc)]])]),
     unreachable |-> FALSE]

\* The stores a call starts from: the generated chunks of some coordinates.
InitCalls ==
    /\ \E points \in SUBSET {chunk_coords(v) : v \in CallVoxels} :
           chunks = ParInsertMany(EmptyMap, EmptyMap, points).chunks
    /\ actions = EmptyMap
    /\ light = LightDefault
    /\ hover = None
    /\ player = [started |-> FALSE,
                 prev |-> WorldArea(<<0, 0>>),
                 curr |-> WorldArea(<<0, 0>>),
                 ray |-> [origin |-> <<0, 0>>, dir |-> <<1, 0>>]]
    /\ requested = {}
    /\ out = <<>>
    /\ tried = <<>>
    /\ proxy = Unlimited
    /\ panic = FALSE
    /\ last = [kind |-> "None"]
    /\ nevents = 0
    /\ BridgeInit

\* branch.merge(world) : the world is merged into; the inserts, the removals
\* and the hits are kept in last, the block updates are not
Merge ==
    \E vs \in (SUBSET CallVoxels) \ {{}} :
        /\ Cardinality(vs) <= 2
        /\ nevents < MaxCalls
        /\ \E f \in [vs -> CallActions] :
           \E branch \in {BranchOf(f)} :
           \E m \in {[c EXCEPT !.block_updates = {}] : c \in BranchMerge(branch, World)} :
               /\ chunks' = m.w.chunks
               /\ actions' = m.w.actions
               /\ light' = m.w.light
               /\ last' = [kind |-> "Merge", branch |-> branch.map,
                           inserts |-> m.inserts, removals |-> m.removals,
                           hits |-> m.hits]
               /\ nevents' = nevents + 1
               /\ UNCHANGED <<hover, player, requested, out, panic, tried, proxy, bridge_vars>>

\* self.generate(coords) : the result is kept in last
Generate ==
    \E cc \in {chunk_coords(v) : v \in CallVoxels} :
        /\ nevents < MaxCalls
        /\ last' = [kind |-> "Generate", coords |-> cc,
                    result |-> WorldGenerate(chunks, actions, cc)]
        /\ nevents' = nevents + 1
        /\ UNCHANGED <<chunks, actions, light, hover, player, requested, out, panic, tried, proxy, bridge_vars>>

\* self.actions.insert(coords, action) : the returned action is kept in last
Insert ==
    \E v \in CallVoxels, action \in CallActions :
        /\ nevents < MaxCalls
        /\ actions' = ActionStoreInsert(actions, v, action)
        /\ last' = [kind |-> "Insert", voxel |-> v, action |-> action,
                    returned |-> ActionStoreInsertReturned(actions, v, action)]
        /\ nevents' = nevents + 1
        /\ UNCHANGED <<chunks, light, hover, player, requested, out, panic, tried, proxy, bridge_vars>>

NextCalls ==
    \/ Merge
    \/ Generate
    \/ Insert

SpecCalls == InitCalls /\ [][NextCalls]_vars

-----------------------------------------------------------------------------
(* Block::vertices : the ambient occlusion of the corners of a side *)

Sides == {"Front", "Right", "Back", "Left", "Up", "Down"}
Corners == {"LowerLeft", "LowerRight", "UpperRight", "UpperLeft"}
Components == {"Edge1", "Edge2", "Corner"}

Add3(p, q) == <<p[1] + q[1], p[2] + q[2], p[3] + q[3]>>
Sub3(p, q) == <<p[1] - q[1], p[2] - q[2], p[3] - q[3]>>

\* SIDE_DELTAS : the neighbor a side faces
SIDE_DELTAS(side) ==
    CASE side = "Front" -> <<0, 0, -1>>
      [] side = "Right" -> <<1, 0, 0>>
      [] side = "Back" -> <<0, 0, 1>>
      [] side = "Left" -> <<-1, 0, 0>>
      [] side = "Up" -> <<0, 1, 0>>
      [] side = "Down" -> <<0, -1, 0>>

\* SIDE_CORNER_SIDES : the two sides that meet a side at a corner
SIDE_CORNER_SIDES(side, corner) ==
    LET horizontal(l, r) ==
            CASE corner = "LowerLeft" -> <<l, "Down">>
              [] corner = "LowerRight" -> <<r, "Down">>
              [] corner = "UpperRight" -> <<r, "Up">>
              [] corner = "UpperLeft" -> <<l, "Up">>
        vertical(lower, upper) ==
            CASE corner = "LowerLeft" -> <<"Left", lower>>
              [] corner = "LowerRight" -> <<"Right", lower>>
              [] corner = "UpperRight" -> <<"Right", upper>>
              [] corner = "UpperLeft" -> <<"Left", upper>>
    IN  CASE side = "Front" -> horizontal("Left", "Right")
          [] side = "Right" -> horizontal("Front", "Back")
          [] side = "Back" -> horizontal("Right", "Left")
          [] side = "Left" -> horizontal("Back", "Front")
          [] side = "Up" -> vertical("Front", "Back")
          [] side = "Down" -> vertical("Back", "Front")

\* SIDE_CORNER_COMPONENT_DELTAS with the edges a step beyond the corner
\* instead of a step back from it.
SIDE_CORNER_COMPONENT_DELTAS_BEYOND(side, corner, component) ==
    LET s == SIDE_CORNER_SIDES(side, corner)
        delta == Add3(Add3(SIDE_DELTAS(side), SIDE_DELTAS(s[1])), SIDE_DELTAS(s[2]))
    IN  CASE component = "Edge1" -> Add3(delta, SIDE_DELTAS(s[2]))
          [] component = "Edge2" -> Add3(delta, SIDE_DELTAS(s[1]))
          [] component = "Corner" -> delta

\* SIDE_CORNER_COMPONENT_DELTAS : the two edge cells and the diagonal cell of
\* a corner of a side
SIDE_CORNER_COMPONENT_DELTAS(side, corner, component) ==
    LET s == SIDE_CORNER_SIDES(side, corner)
        delta == Add3(Add3(SIDE_DELTAS(side), SIDE_DELTAS(s[1])), SIDE_DELTAS(s[2]))
    IN  CASE component = "Edge1" -> Sub3(delta, SIDE_DELTAS(s[2]))
          [] component = "Edge2" -> Sub3(delta, SIDE_DELTAS(s[1]))
          [] component = "Corner" -> delta

\* BlockArea : the opacity snapshot of the 3 x 3 x 3 neighborhood of a voxel,
\* kept as the set of its opaque deltas.
\* BlockArea::is_opaque, BlockArea::is_transparent
BlockAreaIsOpaque(area, delta) == delta \in area
BlockAreaIsTransparent(area, delta) == ~BlockAreaIsOpaque(area, delta)

\* BlockArea::visible_sides
BlockAreaVisibleSides(area) ==
    {side \in Sides : BlockAreaIsTransparent(area, SIDE_DELTAS(side))}

\* BlockArea::components
BlockAreaComponents(area, side, corner) ==
    [component \in Components |->
        BlockAreaIsOpaque(area, SIDE_CORNER_COMPONENT_DELTAS(side, corner, component))]

\* bool as u8
AsU8(b) == IF b THEN 1 ELSE 0

\* Block::ao without the case of two opaque edges.
BlockAoUnclamped(side, corner, area) ==
    LET components == BlockAreaComponents(area, side, corner)
    IN  (3 - (AsU8(components["Edge1"]) + AsU8(components["Edge2"])
                + AsU8(components["Corner"]))) % 256

\* Block::ao
BlockAo(side, corner, area) ==
    LET components == BlockAreaComponents(area, side, corner)
    IN  IF components["Edge1"] /\ components["Edge2"]
        THEN 0
        ELSE (3 - (AsU8(components["Edge1"]) + AsU8(components["Edge2"])
                    + AsU8(components["Corner"]))) % 256

\* Block::corner_aos, for block data whose smooth_lighting() is smooth
BlockCornerAos(smooth, side, area) ==
    [corner \in Corners |-> IF smooth THEN BlockAo(side, corner, area) ELSE 3]

\* Block::ambient_occlusion of the scene's Block
BlockAmbientOcclusion(side, corner, area) ==
    LET edge1 == BlockAreaIsOpaque(area, SIDE_CORNER_COMPONENT_DELTAS(side, corner, "Edge1"))
        edge2 == BlockAreaIsOpaque(area, SIDE_CORNER_COMPONENT_DELTAS(side, corner, "Edge2"))
        diagonal == BlockAreaIsOpaque(area, SIDE_CORNER_COMPONENT_DELTAS(side, corner, "Corner"))
    IN  IF edge1 /\ edge2
        THEN 0
        ELSE (3 - (AsU8(edge1) + AsU8(edge2) + AsU8(diagonal))) % 256

\* The cells of a snapshot that are drawn opaque or transparent for a corner
\* of a side: the cell the side faces, the corner's three component cells and
\* the cell behind the voxel, which no component reads; every other cell is
\* transparent.
SnapshotCells(side, corner) ==
    {SIDE_DELTAS(side), Sub3(<<0, 0, 0>>, SIDE_DELTAS(side))}
        \cup {SIDE_CORNER_COMPONENT_DELTAS(side, corner, component) : component \in Components}

\* A call of Block::vertices about to be made: the block data's
\* smooth_lighting(), a side and a corner of the block and a snapshot
InitVertices ==
    /\ chunks = EmptyMap
    /\ actions = EmptyMap
    /\ light = LightDefault
    /\ hover = None
    /\ player = [started |-> FALSE,
                 prev |-> WorldArea(<<0, 0>>),
                 curr |-> WorldArea(<<0, 0>>),
                 ray |-> [origin |-> <<0, 0>>, dir |-> <<1, 0>>]]
    /\ requested = {}
    /\ out = <<>>
    /\ tried = <<>>
    /\ proxy = Unlimited
    /\ panic = FALSE
    /\ \E smooth \in BOOLEAN, side \in Sides, corner \in Corners :
       \E area \in SUBSET SnapshotCells(side, corner) :
           last = [kind |-> "None", smooth_lighting |-> smooth, side |-> side,
                   corner |-> corner, area |-> area, ao |-> None]
    /\ nevents = 0
    /\ BridgeInit

\* Block::vertices : the ambient occlusion of one corner of one side of a
\* block, None when the side is not visible
Vertices ==
    /\ last.kind = "None"
    /\ last' = [last EXCEPT
                  !.kind = "Vertices",
                  !.ao = IF last.side \in BlockAreaVisibleSides(last.area)
                         THEN <<BlockCornerAos(last.smooth_lighting, last.side,
                                               last.area)[last.corner]>>
                         ELSE None]
    /\ UNCHANGED <<chunks, actions, light, hover, player, requested, out, panic,
                   nevents, tried, proxy, bridge_vars>>

\* Block::vertices of the scene's Block, which has no smooth_lighting switch
SceneVertices ==
    /\ last.kind = "None"
    /\ last' = [last EXCEPT
                  !.kind = "SceneVertices",
                  !.ao = IF BlockAreaIsTransparent(last.area, SIDE_DELTAS(last.side))
                         THEN <<BlockAmbientOcclusion(last.side, last.corner, last.area)>>
                         ELSE None]
    /\ UNCHANGED <<chunks, actions, light, hover, player, requested, out, panic,
                   nevents, tried, proxy, bridge_vars>>

NextVertices ==
    \/ Vertices
    \/ SceneVertices

SpecVertices == InitVertices /\ [][NextVertices]_vars

-----------------------------------------------------------------------------
(* The place-then-destroy scenario: a session beside the terrain's column *)

\* The number of client events in a run of the scenario.
MaxScenarioEvents == 5

\* The voxels the viewer stands at: the two rows beside the Sand that is the
\* only block of its chunk, facing it and facing the foot of the column.
ScenarioPositions == {<<2 * DIM - 1, TopY - DIM - 1>>, <<2 * DIM - 1, TopY - 2 * DIM>>}

\* The blocks the viewer places: a solid block that needs no surface.
ScenarioBlocks == {"Sand"}

\* EventHandler::handle for World, within the scenario's number of events
ScenarioHandle(event, pl) ==
    /\ nevents < MaxScenarioEvents
    /\ panic = FALSE
    /\ CASE event.kind = "InitialRenderRequested" -> HandleInitialRenderRequested(event, pl)
         [] event.kind = "WorldAreaChanged" -> HandleWorldAreaChanged(event, pl)
         [] event.kind = "BlockHoverRequested" -> HandleBlockHoverRequested(event, pl)
         [] event.kind = "BlockPlaced" -> HandleBlockPlaced(event, pl)
         [] event.kind = "BlockDestroyed" -> HandleBlockDestroyed(event, pl)

\* ClientEvent::InitialRenderRequested from one of the scenario's positions
ScenarioStarted ==
    \E origin \in ScenarioPositions, dir \in Directions :
        /\ ~player.started
        /\ \E pl \in {[started |-> TRUE,
                       prev |-> WorldArea(chunk_coords(origin)),
                       curr |-> WorldArea(chunk_coords(origin)),
                       ray |-> [origin |-> origin, dir |-> dir]]} :
               ScenarioHandle(WorldEventNew("InitialRenderRequested", "Air", pl), pl)

\* ClientEvent::PlayerPositionChanged between the scenario's positions
ScenarioMoved ==
    \E delta \in Directions, origin \in ScenarioPositions :
        /\ player.started
        /\ origin = Add(player.ray.origin, delta)
        /\ \E pl \in {[player EXCEPT !.prev = player.curr,
                                     !.curr = WorldArea(chunk_coords(origin)),
                                     !.ray.origin = origin]} :
               ScenarioHandle(WorldEventNew("PlayerPositionChanged", "Air", pl), pl)

\* ClientEvent::PlayerOrientationChanged
ScenarioTurned ==
    \E dir \in Directions :
        /\ player.started
        /\ \E pl \in {[player EXCEPT !.ray.dir = dir]} :
               ScenarioHandle(WorldEventNew("PlayerOrientationChanged", "Air", pl), pl)

\* ClientEvent::BlockPlaced of a solid block
ScenarioPlaced ==
    \E block \in ScenarioBlocks :
        /\ player.started
        /\ ScenarioHandle(WorldEventNew("BlockPlaced", block, player), player)

\* ClientEvent::BlockDestroyed
ScenarioDestroyed ==
    /\ player.started
    /\ ScenarioHandle(WorldEventNew("BlockDestroyed", "Air", player), player)

NextScenario ==
    \/ ScenarioStarted
    \/ ScenarioMoved
    \/ ScenarioTurned
    \/ ScenarioPlaced
    \/ ScenarioDestroyed

SpecScenario == Init /\ [][NextScenario]_vars

-----------------------------------------------------------------------------
(* The area-shrink scenario: the radius of the viewer's area is reduced *)

\* The largest radius of a viewer's area in the scenario.
MaxRadius == 2

\* ClientEvent::InitialRenderRequested with an area of a radius of the
\* scenario
ShrinkStarted ==
    \E origin \in Positions, dir \in Directions, radius \in 1 .. MaxRadius :
        /\ ~player.started
        /\ \E pl \in {[started |-> TRUE,
                       prev |-> [center |-> chunk_coords(origin), radius |-> radius],
                       curr |-> [center |-> chunk_coords(origin), radius |-> radius],
                       ray |-> [origin |-> origin, dir |-> dir]]} :
               ScenarioHandle(WorldEventNew("InitialRenderRequested", "Air", pl), pl)

\* WorldEvent::WorldAreaChanged from the viewer's area to an area with the
\* same center and a smaller radius
AreaShrunk ==
    \E radius \in 0 .. MaxRadius :
        /\ player.started
        /\ radius < player.curr.radius
        /\ \E pl \in {[player EXCEPT !.prev = player.curr,
                                     !.curr = [center |-> player.curr.center,
                                               radius |-> radius]]} :
               ScenarioHandle(WorldEventNew("PlayerPositionChanged", "Air", pl), pl)

NextShrink ==
    \/ ShrinkStarted
    \/ AreaShrunk

SpecShrink == Init /\ [][NextShrink]_vars

-----------------------------------------------------------------------------
(* Successive sessions: the world outlives the viewer that filled it *)

\* The number of client events over the successive sessions of a run.
MaxSessions == 3

\* The voxels a viewer starts from: beside the Sand of the scenario in either
\* chunk column, and one row lower.
SessionPositions ==
    {<<DIM - 1, TopY - DIM - 1>>, <<2 * DIM - 1, TopY - DIM - 1>>,
     <<2 * DIM - 1, TopY - 2 * DIM>>}

\* ClientEvent::InitialRenderRequested of a viewer, the first or a later one:
\* the Server and its World are built once in main, and every accepted
\* connection starts with this event.
SessionStarted ==
    \E origin \in SessionPositions, dir \in Directions :
        /\ nevents < MaxSessions
        /\ \E pl \in {[started |-> TRUE,
                       prev |-> WorldArea(chunk_coords(origin)),
                       curr |-> WorldArea(chunk_coords(origin)),
                       ray |-> [origin |-> origin, dir |-> dir]]} :
               ScenarioHandle(WorldEventNew("InitialRenderRequested", "Air", pl), pl)

\* ClientEvent::PlayerOrientationChanged of the current viewer
SessionTurned == nevents < MaxSessions /\ ScenarioTurned

\* ClientEvent::BlockPlaced of the current viewer
SessionPlaced == nevents < MaxSessions /\ ScenarioPlaced

\* ClientEvent::BlockDestroyed of the current viewer
SessionDestroyed == nevents < MaxSessions /\ ScenarioDestroyed

NextSessions ==
    \/ SessionStarted
    \/ SessionTurned
    \/ SessionPlaced
    \/ SessionDestroyed

SpecSessions == Init /\ [][NextSessions]_vars

-----------------------------------------------------------------------------
(* One chunk under Chunk::apply and Chunk::apply_unchecked *)

\* The voxels of the chunk the calls address.
ChunkCells == {<<0, 0>>, <<0, 1>>, <<1, 1>>}

\* The blocks a constructed chunk holds.
ChunkBlocks == {"Air", "Sand", "Glowstone"}

\* The actions of the calls, Place(Air) included.
ChunkActions == {Destroy} \cup {Place(block) : block \in Blocks}

\* The grids Chunk::from_fn is given: any block in the addressed voxels, and
\* one block in all the others.
ChunkGrids ==
    {[p \in ChunkPoints |-> IF p \in ChunkCells THEN g[p] ELSE fill] :
        g \in [ChunkCells -> ChunkBlocks], fill \in {"Air", "Glowstone"}}

\* The chunk after construction: Chunk::default or Chunk::from_fn of a grid.
\* The chunk under test is kept in last.
InitChunk ==
    /\ chunks = EmptyMap
    /\ actions = EmptyMap
    /\ light = LightDefault
    /\ hover = None
    /\ player = [started |-> FALSE,
                 prev |-> WorldArea(<<0, 0>>),
                 curr |-> WorldArea(<<0, 0>>),
                 ray |-> [origin |-> <<0, 0>>, dir |-> <<1, 0>>]]
    /\ requested = {}
    /\ out = <<>>
    /\ tried = <<>>
    /\ proxy = Unlimited
    /\ panic = FALSE
    /\ nevents = 0
    /\ BridgeInit
    /\ \E chunk \in {ChunkDefault} \cup {ChunkFromFn(f) : f \in ChunkGrids} :
           last = [kind |-> "Constructed", chunk |-> chunk, coords |-> <<0, 0>>,
                   action |-> Destroy, returned |-> FALSE]

\* chunk.apply(coords, action) : the returned bool is kept in last
ChunkApplied ==
    \E bc \in ChunkCells, action \in ChunkActions :
    \E res \in {ChunkApply(last.chunk, bc, action)} :
        /\ last' = [kind |-> "Apply", chunk |-> res.chunk, coords |-> bc,
                    action |-> action, returned |-> res.ok]
        /\ UNCHANGED <<world_vars, bridge_vars>>

\* chunk.apply_unchecked(coords, action)
ChunkAppliedUnchecked ==
    \E bc \in ChunkCells, action \in ChunkActions :
        /\ last' = [kind |-> "ApplyUnchecked",
                    chunk |-> ChunkApplyUnchecked(last.chunk, bc, action),
                    coords |-> bc, action |-> action, returned |-> FALSE]
        /\ UNCHANGED <<world_vars, bridge_vars>>

NextChunk ==
    \/ ChunkApplied
    \/ ChunkAppliedUnchecked

SpecChunk == InitChunk /\ [][NextChunk]_vars

-----------------------------------------------------------------------------
(* ChunkLight: a light value per voxel and the count of the non-zero ones *)

\* The largest light value a call is given.
MaxLightValue == 3

\* BlockLight as the unsigned number its bits spell; zero is the default.
LightValues == 0 .. MaxLightValue

\* The bitwise or of two unsigned numbers.
RECURSIVE BitOr(_, _)
BitOr(a, b) ==
    IF a = 0 THEN b
    ELSE IF b = 0 THEN a
    ELSE (IF a % 2 = 1 \/ b % 2 = 1 THEN 1 ELSE 0) + 2 * BitOr(a \div 2, b \div 2)

\* ChunkLight::default : every light zero, the count zero
ChunkLightDefault ==
    [lights |-> Table([p \in ChunkPoints |-> 0]), non_zero_count |-> 0]

\* ChunkLight::set : [ok, light]; the value is stored, the count moves when
\* the value leaves or reaches zero
ChunkLightSet(self, bc, value) ==
    LET prev == self.lights[bc]
        stored == [self EXCEPT !.lights[bc] = value]
    IN  IF prev = value THEN [ok |-> FALSE, light |-> stored]
        ELSE [ok |-> TRUE,
              light |-> IF prev = 0
                        THEN [stored EXCEPT !.non_zero_count = U16(@ + 1)]
                        ELSE IF value = 0
                        THEN [stored EXCEPT !.non_zero_count = U16(@ - 1)]
                        ELSE stored]

\* ChunkLight::is_empty
ChunkLightIsEmpty(self) == self.non_zero_count = 0

\* ChunkLight |= light setting the count whatever the light.
ChunkLightBitOrAssignAlwaysFull(self, value) ==
    [lights |-> Table([p \in ChunkPoints |-> BitOr(self.lights[p], value)]),
     non_zero_count |-> U16(Cardinality(ChunkPoints))]

\* ChunkLight |= light : the light is or-ed into every voxel, the rows taken
\* in groups of CHUNK_SIZE values; a non-zero light makes every value non-zero
ChunkLightBitOrAssign(self, value) ==
    [lights |-> Table([p \in ChunkPoints |-> BitOr(self.lights[p], value)]),
     non_zero_count |-> IF value # 0 THEN U16(Cardinality(ChunkPoints))
                        ELSE self.non_zero_count]

\* A default ChunkLight, kept in last.
InitChunkLight ==
    /\ chunks = EmptyMap
    /\ actions = EmptyMap
    /\ light = LightDefault
    /\ hover = None
    /\ player = [started |-> FALSE,
                 prev |-> WorldArea(<<0, 0>>),
                 curr |-> WorldArea(<<0, 0>>),
                 ray |-> [origin |-> <<0, 0>>, dir |-> <<1, 0>>]]
    /\ requested = {}
    /\ out = <<>>
    /\ tried = <<>>
    /\ proxy = Unlimited
    /\ panic = FALSE
    /\ nevents = 0
    /\ BridgeInit
    /\ last = [kind |-> "Default", light |-> ChunkLightDefault, coords |-> <<0, 0>>,
               value |-> 0, returned |-> FALSE]

\* light.set(coords, value) : the returned bool is kept in last
ChunkLightWasSet ==
    \E bc \in ChunkCells, value \in LightValues :
    \E res \in {ChunkLightSet(last.light, bc, value)} :
        /\ last' = [kind |-> "Set", light |-> res.light, coords |-> bc,
                    value |-> value, returned |-> res.ok]
        /\ UNCHANGED <<world_vars, bridge_vars>>

\* light |= value
ChunkLightWasOred ==
    \E value \in LightValues :
        /\ last' = [kind |-> "BitOrAssign",
                    light |-> ChunkLightBitOrAssign(last.light, value),
                    coords |-> <<0, 0>>, value |-> value, returned |-> FALSE]
        /\ UNCHANGED <<world_vars, bridge_vars>>

NextChunkLight ==
    \/ ChunkLightWasSet
    \/ ChunkLightWasOred

SpecChunkLight == InitChunkLight /\ [][NextChunkLight]_vars

-----------------------------------------------------------------------------
(* BlockArea : the index of a delta in the snapshot's bits *)

\* BlockArea::PADDING
PADDING == 1

\* BlockArea::DIM
BlockAreaDIM == 1 + PADDING * 2

\* BlockArea::AXIS_RANGE
AXIS_RANGE == (0 - PADDING) .. PADDING

\* BlockArea::deltas : the 27 deltas of the snapshot, all three axes
BlockAreaDeltas3 == AXIS_RANGE \X AXIS_RANGE \X AXIS_RANGE

\* An i8 after a wrapping operation: the residue in -128 .. 127.
I8(n) == ((n + 128) % 256) - 128

\* x * dim^2 + y * dim + z on three usize, each kept as its residue modulo
\* 2^64: a negative number n stands for 2^64 + n.  The build without
\* overflow checks wraps every operation, so the result is the residue of
\* the plain sum.
UsizeIndex(idx, dim) == idx[1] * dim * dim + idx[2] * dim + idx[3]

\* Whether x * dim^2 + y * dim + z overflows a usize, which panics in the
\* build with overflow checks: a product of a wrapped cast with dim^2 or
\* dim, or the sum when z is a wrapped cast and the sum passes 2^64.
UsizeIndexOverflows(idx, dim) ==
    \/ idx[1] < 0
    \/ idx[2] < 0
    \/ idx[3] < 0 /\ idx[1] * dim * dim + idx[2] * dim + idx[3] >= 0

\* BlockArea::index_unchecked : (c + PADDING as i8) as usize on every
\* component, then x * DIM^2 + y * DIM + z.  The sum c + PADDING is an i8
\* and wraps at 127; the cast of a negative i8 sign-extends, and the
\* negative number stands for 2^64 plus itself.
BlockAreaIndexUnchecked(delta) ==
    LET idx == [i \in 1 .. 3 |-> I8(delta[i] + PADDING)]
    IN  UsizeIndex(idx, BlockAreaDIM)

\* The overflow checks of BlockArea::index_unchecked: the i8 sum, then the
\* usize products and sums.
BlockAreaIndexUncheckedOverflows(delta) ==
    \/ \E i \in 1 .. 3 : delta[i] + PADDING \notin -128 .. 127
    \/ UsizeIndexOverflows([i \in 1 .. 3 |-> I8(delta[i] + PADDING)], BlockAreaDIM)

\* BlockArea::index : the assertion on the three components, then the index
BlockAreaIndex(delta) ==
    LET asserted == \A i \in 1 .. 3 : delta[i] \in AXIS_RANGE
    IN  [asserted |-> asserted,
         index |-> IF asserted THEN <<BlockAreaIndexUnchecked(delta)>> ELSE None]

\* The scene's BlockArea::index_unchecked : (c - LOWER_BOUND) as usize on
\* every component, no assertion before it.  The difference is an i8 and
\* wraps at 127.
SceneBlockAreaIndexUnchecked(delta) ==
    LET lower_bound == -1
        upper_bound == 1
        dim == (upper_bound - lower_bound) + 1
        idx == [i \in 1 .. 3 |-> I8(delta[i] - lower_bound)]
    IN  UsizeIndex(idx, dim)

\* The overflow checks of the scene's BlockArea::index_unchecked.
SceneBlockAreaIndexUncheckedOverflows(delta) ==
    LET lower_bound == -1
        upper_bound == 1
        dim == (upper_bound - lower_bound) + 1
    IN  \/ \E i \in 1 .. 3 : delta[i] - lower_bound \notin -128 .. 127
        \/ UsizeIndexOverflows([i \in 1 .. 3 |-> I8(delta[i] - lower_bound)], dim)

\* The deltas the code reads or writes a snapshot with, each with the table
\* it comes from.
UsedDeltas ==
    {[table |-> "deltas", side |-> "Front", corner |-> "LowerLeft",
      component |-> "Corner", delta |-> delta] : delta \in BlockAreaDeltas3}
    \cup {[table |-> "SIDE_DELTAS", side |-> side, corner |-> "LowerLeft",
           component |-> "Corner", delta |-> SIDE_DELTAS(side)] : side \in Sides}
    \cup {[table |-> "SIDE_CORNER_COMPONENT_DELTAS", side |-> t[1], corner |-> t[2],
           component |-> t[3],
           delta |-> SIDE_CORNER_COMPONENT_DELTAS(t[1], t[2], t[3])] :
              t \in Sides \X Corners \X Components}

\* A delta of one of the tables, about to be used on a snapshot.
InitAreaIndex ==
    /\ chunks = EmptyMap
    /\ actions = EmptyMap
    /\ light = LightDefault
    /\ hover = None
    /\ player = [started |-> FALSE,
                 prev |-> WorldArea(<<0, 0>>),
                 curr |-> WorldArea(<<0, 0>>),
                 ray |-> [origin |-> <<0, 0>>, dir |-> <<1, 0>>]]
    /\ requested = {}
    /\ out = <<>>
    /\ tried = <<>>
    /\ proxy = Unlimited
    /\ panic = FALSE
    /\ nevents = 0
    /\ BridgeInit
    /\ \E used \in UsedDeltas :
           last = [kind |-> "None", used |-> used, asserted |-> TRUE, index |-> None]

\* BlockArea::set / BlockArea::is_opaque : the bit at index(delta)
AreaIndexed ==
    /\ last.kind = "None"
    /\ \E res \in {BlockAreaIndex(last.used.delta)} :
       \E panicked \in IF res.asserted /\ BlockAreaIndexUncheckedOverflows(last.used.delta)
                        THEN BOOLEAN ELSE {FALSE} :
           last' = IF panicked
                   THEN [last EXCEPT !.kind = "Panicked"]
                   ELSE [last EXCEPT !.kind = "Index", !.asserted = res.asserted,
                                     !.index = res.index]
    /\ UNCHANGED <<world_vars, bridge_vars>>

\* The scene's BlockArea::from_fn / get_unchecked : the bit at
\* index_unchecked(coords)
SceneAreaIndexed ==
    /\ last.kind = "None"
    /\ \E panicked \in IF SceneBlockAreaIndexUncheckedOverflows(last.used.delta)
                        THEN BOOLEAN ELSE {FALSE} :
           last' = IF panicked
                   THEN [last EXCEPT !.kind = "ScenePanicked"]
                   ELSE [last EXCEPT !.kind = "SceneIndex",
                                     !.index = <<SceneBlockAreaIndexUnchecked(last.used.delta)>>]
    /\ UNCHANGED <<world_vars, bridge_vars>>

NextAreaIndex ==
    \/ AreaIndexed
    \/ SceneAreaIndexed

SpecAreaIndex == InitAreaIndex /\ [][NextAreaIndex]_vars

-----------------------------------------------------------------------------
(* EnumMap::from_iter and its Guard *)

\* Enum::LEN of the enum the map is keyed by.
EnumLen == 2

\* The longest iterator handed to from_iter.
MaxPairs == 3

\* The variants of the enum, by index.
EnumVariants == 0 .. EnumLen - 1

\* The values the iterator yields.
EnumValues == {"a", "b"}

\* EnumMap::uninit : no slot written
EnumMapUninit == [variant \in EnumVariants |-> None]

\* Guard::new
GuardNew ==
    [uninit |-> EnumMapUninit, is_init |-> [variant \in EnumVariants |-> FALSE],
     count |-> 0]

\* Guard::set : the slot is written, marked and counted, whatever it held
GuardSet(guard, variant, value) ==
    [uninit |-> [guard.uninit EXCEPT ![variant] = <<value>>],
     is_init |-> [guard.is_init EXCEPT ![variant] = TRUE],
     count |-> guard.count + 1]

\* Guard::init : set when the slot is not marked; [ok, guard]
GuardInit(guard, variant, value) ==
    IF ~guard.is_init[variant]
    THEN [ok |-> TRUE, guard |-> GuardSet(guard, variant, value)]
    ELSE [ok |-> FALSE, guard |-> guard]

\* Guard::missing_variant : the first variant that is not marked
GuardMissingVariant(guard) ==
    LET missing == {variant \in EnumVariants : ~guard.is_init[variant]}
    IN  IF missing = {} THEN None
        ELSE <<CHOOSE variant \in missing : \A other \in missing : variant <= other>>

\* Guard::finish : Ok when count is LEN; otherwise Err of the missing
\* variant, and unreachable!() when none is missing
GuardFinish(guard) ==
    IF guard.count = EnumLen THEN [ok |-> TRUE, unreachable |-> FALSE]
    ELSE [ok |-> FALSE, unreachable |-> GuardMissingVariant(guard) = None]

\* EnumMap::assume_init : the maps the caller may get.  A written slot holds
\* its value; reading a slot that was never written is undefined, and any
\* value may be found there.
AssumeInit(uninit) ==
    {map \in [EnumVariants -> EnumValues] :
        \A variant \in EnumVariants :
            uninit[variant] # None => map[variant] = uninit[variant][1]}

\* The sequences of at most n elements of S.
PairSeqs(S, n) == UNION {[1 .. k -> S] : k \in 0 .. n}

\* EnumMap::from_iter entered with an iterator: the guard is new
InitFromIter ==
    /\ chunks = EmptyMap
    /\ actions = EmptyMap
    /\ light = LightDefault
    /\ hover = None
    /\ player = [started |-> FALSE,
                 prev |-> WorldArea(<<0, 0>>),
                 curr |-> WorldArea(<<0, 0>>),
                 ray |-> [origin |-> <<0, 0>>, dir |-> <<1, 0>>]]
    /\ requested = {}
    /\ out = <<>>
    /\ tried = <<>>
    /\ proxy = Unlimited
    /\ panic = FALSE
    /\ nevents = 0
    /\ BridgeInit
    /\ \E iter \in PairSeqs(EnumVariants \X EnumValues, MaxPairs) :
           last = [kind |-> "FromIter", iter |-> iter, guard |-> GuardNew, map |-> None]

\* for (variant, value) in iter { guard.set(variant, value) }
FromIterSet ==
    /\ last.kind = "FromIter"
    /\ last.iter # <<>>
    /\ last' = [last EXCEPT
                  !.iter = Tail(@),
                  !.guard = GuardSet(@, Head(last.iter)[1], Head(last.iter)[2])]
    /\ UNCHANGED <<world_vars, bridge_vars>>

\* assert!(guard.finish().is_ok()); unsafe { uninit.assume_init() }
FromIterFinish ==
    /\ last.kind = "FromIter"
    /\ last.iter = <<>>
    /\ IF GuardFinish(last.guard).ok
       THEN \E map \in AssumeInit(last.guard.uninit) :
                last' = [last EXCEPT !.kind = "Returned", !.map = <<map>>]
       ELSE last' = [last EXCEPT !.kind = "Panicked"]
    /\ UNCHANGED <<world_vars, bridge_vars>>

NextFromIter ==
    \/ FromIterSet
    \/ FromIterFinish

SpecFromIter == InitFromIter /\ [][NextFromIter]_vars

-----------------------------------------------------------------------------
(* Properties *)

\* The world events that edit a voxel.
EditKinds == {"BlockPlaced", "BlockDestroyed"}

\* The voxel an edit event addresses given the cached hover h, and its action.
EditTarget(kind, h) == IF kind = "BlockPlaced" THEN Add(h[1], h[2]) ELSE h[1]
EditAction(event) == IF event.kind = "BlockPlaced" THEN Place(event.block) ELSE Destroy

\* The chunk events of a sequence of sent events, in the order they were sent.
IsChunkEvent(e) == e.kind # "BlockHovered"
ChunkEvents(events) == SelectSeq(events, IsChunkEvent)

\* Whether the kinds of a sequence of events come in the order first, second,
\* third: no event of a later kind precedes one of an earlier kind.
Rank(kind, first, second, third) ==
    CASE kind = first -> 1
      [] kind = second -> 2
      [] kind = third -> 3
Ordered(events, first, second, third) ==
    \A i, j \in 1 .. Len(events) :
        i < j => Rank(events[i].kind, first, second, third)
                     <= Rank(events[j].kind, first, second, third)

KindsOf(events) == {events[i].kind : i \in 1 .. Len(events)}

\* C1: every chunk of the ChunkStore holds at least one non-air block, and its
\* non-air count is positive; a chunk that edits emptied is not in the store.
NoEmptyChunkStored ==
    \A cc \in DOMAIN chunks :
        /\ chunks[cc].non_air_count > 0
        /\ \E bc \in ChunkPoints : chunks[cc].blocks[bc] # "Air"

\* An edit emptied a chunk the generator fills, and the chunk is absent.
EmptiedChunkAbsent ==
    /\ last.kind = "BlockDestroyed"
    /\ \E cc \in requested :
           /\ ~ChunkIsEmpty(GeneratorGenerate(cc))
           /\ cc \in DOMAIN actions
           /\ ~StoreContains(chunks, cc)

\* C2: a stored chunk is the generator's chunk with the ActionStore's actions
\* for its coordinate replayed over it; a coordinate that was requested of
\* generation and is absent replays to an all-air chunk.
StoreIsReplayOfLog ==
    /\ \A cc \in DOMAIN chunks : chunks[cc] = Regenerated(actions, cc)
    /\ \A cc \in requested \ DOMAIN chunks : ChunkIsEmpty(Regenerated(actions, cc))

\* A stored chunk with logged actions that differs from the generator's, while
\* another requested coordinate the generator fills has been emptied by edits.
EditedChunkStored ==
    /\ \E cc \in DOMAIN chunks :
           /\ cc \in DOMAIN actions
           /\ chunks[cc] # GeneratorGenerate(cc)
    /\ \E cc \in requested \ DOMAIN chunks : ~ChunkIsEmpty(GeneratorGenerate(cc))

\* C3: the chunk events sent for a WorldAreaChanged come as all ChunkUnloaded,
\* then all ChunkLoaded, then all ChunkUpdated.
AreaChangedOrder ==
    last.kind = "WorldAreaChanged" =>
        Ordered(ChunkEvents(out), "ChunkUnloaded", "ChunkLoaded", "ChunkUpdated")

\* An area change that sent events of all three kinds.
AreaChangedSentAllKinds ==
    /\ last.kind = "WorldAreaChanged"
    /\ KindsOf(ChunkEvents(out)) = {"ChunkUnloaded", "ChunkLoaded", "ChunkUpdated"}

\* C4, as stated: the chunk events sent for a BlockPlaced or BlockDestroyed
\* come in the order of an area change: unloads, then loads, then updates.
EditOrderAsAreaChanged ==
    last.kind \in EditKinds =>
        Ordered(ChunkEvents(out), "ChunkUnloaded", "ChunkLoaded", "ChunkUpdated")

\* C4, amended: the chunk events sent for a BlockPlaced or BlockDestroyed come
\* as all ChunkUpdated, then all ChunkUnloaded, then all ChunkLoaded.
EditOrder ==
    last.kind \in EditKinds =>
        Ordered(ChunkEvents(out), "ChunkUpdated", "ChunkUnloaded", "ChunkLoaded")

\* An edit that sent both updates and an unload.
EditSentUpdatesAndUnload ==
    /\ last.kind \in EditKinds
    /\ {"ChunkUpdated", "ChunkUnloaded"} \subseteq KindsOf(ChunkEvents(out))

\* C5: a BlockHoverRequested stores the intersection it computed as the cached
\* hover whether or not it changed, and sends exactly one BlockHovered when
\* the intersection differs from the cached one and nothing when it is equal.
HoverStoredAndSentOnChange ==
    [][last'.kind = "BlockHoverRequested" =>
           /\ hover' = RayCast(chunks, player'.ray)
           /\ out' = IF hover' # hover THEN <<BlockHovered(hover')>> ELSE <<>>
           /\ UNCHANGED <<chunks, actions, light>>]_vars

\* A hover request that resolved to the cached intersection and sent nothing.
HoverRepeatedSilently ==
    /\ last.kind = "BlockHoverRequested"
    /\ hover # None
    /\ out = <<>>

\* C6: a BlockPlaced or BlockDestroyed handled while there is no cached hover
\* changes nothing of the world and sends no event.
EditWithoutHoverIsNoOp ==
    [][(last'.kind \in EditKinds /\ hover = None) =>
           /\ UNCHANGED <<chunks, actions, light, hover, requested>>
           /\ out' = <<>>
           /\ panic' = FALSE]_vars

\* An edit was handled without a hover over a populated store.
EditWithoutHoverHandled ==
    /\ last.kind \in EditKinds
    /\ hover = None
    /\ out = <<>>
    /\ chunks # EmptyMap

\* Whether the target of an edit lies within the vertical bound, and whether
\* the placement rule allows the edit of a block given the hover h.
InVerticalBound(p) == chunk_coords(p)[2] \in Y_RANGE
SurfaceRulePasses(store, p, normal, block) ==
    normal = VectorY /\ StoreBlock(store, Sub(p, VectorY)) = valid_surface(block)
FailsValidation(store, event, h) ==
    \/ ~InVerticalBound(EditTarget(event.kind, h))
    \/ /\ event.kind = "BlockPlaced"
       /\ valid_surface(event.block) # "None"
       /\ ~SurfaceRulePasses(store, EditTarget(event.kind, h), h[2], event.block)

\* C7: an edit whose target is outside the vertical bound or whose placement
\* rule is violated is rejected silently: Branch::apply returns false, the
\* store, the ActionStore, the light and the hover are unchanged, no event is
\* sent and the unreachable arm is not entered.
InvalidEditRejectedSilently ==
    [][(last'.kind \in EditKinds /\ hover # None /\ FailsValidation(chunks, last', hover)) =>
           /\ ~BranchApply(BranchDefault, chunks, EditTarget(last'.kind, hover),
                           hover[2], EditAction(last')).ok
           /\ UNCHANGED <<chunks, actions, light, hover, requested>>
           /\ out' = <<>>
           /\ panic' = FALSE]_vars

\* An edit that fails validation was handled; the world it left is the one
\* it found.
InvalidEditHandled ==
    /\ last.kind \in EditKinds
    /\ hover # None
    /\ FailsValidation(chunks, last, hover)
    /\ out = <<>>

\* C8, as stated: for a Place whose target voxel holds a non-air block,
\* Branch::apply returns false and records no action in the Branch.
PlaceOnNonAirRefusedByBranch ==
    [][(last'.kind = "BlockPlaced" /\ hover # None
            /\ StoreBlock(chunks, Add(hover[1], hover[2])) # "Air") =>
           LET b == BranchApply(BranchDefault, chunks, Add(hover[1], hover[2]),
                                hover[2], Place(last'.block))
           IN  ~b.ok /\ b.branch.map = EmptyMap]_vars

\* C8, amended: Branch validation does not look at the target voxel's block.
\* For a Place whose target voxel holds a non-air block, Branch::apply returns
\* true and records the action whenever the target is within the vertical
\* bound and the placement rule passes; the Place is then refused by
\* Chunk::apply in the merge, so the store and the ActionStore are unchanged
\* and no chunk event is sent.
PlaceOnNonAirRefusedByMerge ==
    [][(last'.kind = "BlockPlaced" /\ hover # None
            /\ StoreBlock(chunks, Add(hover[1], hover[2])) # "Air") =>
           LET p == Add(hover[1], hover[2])
               b == BranchApply(BranchDefault, chunks, p, hover[2], Place(last'.block))
           IN  /\ b.ok = ~FailsValidation(chunks, last', hover)
               /\ b.ok => b.branch.map =
                              Put(EmptyMap, chunk_coords(p),
                                  Put(EmptyMap, block_coords(p), Place(last'.block)))
               /\ UNCHANGED <<chunks, actions>>
               /\ ChunkEvents(out') = <<>>]_vars

\* A Place of a block on a voxel that holds another block was handled, was
\* accepted by Branch::apply and left the voxel as it was.
PlaceOnNonAirHandled ==
    /\ last.kind = "BlockPlaced"
    /\ last.block # "Air"
    /\ hover # None
    /\ StoreBlock(chunks, Add(hover[1], hover[2])) \notin {"Air", last.block}
    /\ BranchApply(BranchDefault, chunks, Add(hover[1], hover[2]), hover[2],
                   Place(last.block)).ok
    /\ out = <<>>

\* C9, as stated: a Place of a block that declares a required surface is
\* accepted by Branch validation if and only if the normal is up and the voxel
\* beneath the target holds that surface.
SurfaceRuleAlone ==
    [][(last'.kind = "BlockPlaced" /\ hover # None
            /\ valid_surface(last'.block) # "None") =>
           LET p == Add(hover[1], hover[2])
               accepted == BranchApply(BranchDefault, chunks, p, hover[2],
                                       Place(last'.block)).ok
           IN  accepted = SurfaceRulePasses(chunks, p, hover[2], last'.block)]_vars

\* C9, amended: for a target within the vertical bound, a Place of a block
\* that declares a required surface is accepted by Branch validation if and
\* only if the normal is up and the voxel beneath the target holds that
\* surface, and an accepted Place on an air voxel puts the block there; a
\* block without a required surface is accepted whatever the normal.
SurfaceRuleWithinBound ==
    [][(last'.kind = "BlockPlaced" /\ hover # None
            /\ InVerticalBound(Add(hover[1], hover[2]))) =>
           LET p == Add(hover[1], hover[2])
               accepted == BranchApply(BranchDefault, chunks, p, hover[2],
                                       Place(last'.block)).ok
               placed == StoreBlock(chunks, p) = "Air" /\ StoreBlock(chunks', p) = last'.block
           IN  IF valid_surface(last'.block) # "None"
               THEN /\ accepted = SurfaceRulePasses(chunks, p, hover[2], last'.block)
                    /\ StoreBlock(chunks, p) = "Air" => (placed = accepted)
               ELSE accepted]_vars

\* A block that requires a surface stands where a Place just put it, on the
\* surface it requires.
SurfaceBlockPlaced ==
    /\ last.kind = "BlockPlaced"
    /\ valid_surface(last.block) # "None"
    /\ \E cc \in DOMAIN actions : \E bc \in DOMAIN actions[cc] :
           /\ actions[cc][bc] = Place(last.block)
           /\ StoreBlock(chunks, coords(cc, bc)) = last.block
           /\ StoreBlock(chunks, Sub(coords(cc, bc), VectorY)) = valid_surface(last.block)

\* C10: a Destroy cascades through a chain of dependent blocks: every block
\* above the destroyed voxel that requires a surface and stands on a chain of
\* such blocks down to the destroyed voxel is destroyed by the same edit, so
\* none of them is left resting on air.
DestroyCascadesThroughChain ==
    [][(last'.kind = "BlockDestroyed" /\ hover # None /\ InVerticalBound(hover[1])) =>
           \A k \in 1 .. DIM :
               (\A j \in 1 .. k :
                    valid_surface(StoreBlock(chunks, Add(hover[1], Scale(j, VectorY))))
                        # "None")
                   => StoreBlock(chunks', Add(hover[1], Scale(k, VectorY))) = "Air"]_vars

\* C11: no action an edit request records in its Branch, the requested one
\* or the cascaded Destroy of the voxel above, addresses a voxel whose chunk
\* lies outside World::Y_RANGE, and no chunk or logged action lies outside it.
EditsWithinVerticalBound ==
    [][(last'.kind \in EditKinds /\ hover # None) =>
           LET b == BranchApply(BranchDefault, chunks, EditTarget(last'.kind, hover),
                                hover[2], EditAction(last'))
           IN  /\ \A cc \in DOMAIN b.branch.map : cc[2] \in Y_RANGE
               /\ \A cc \in DOMAIN actions' : cc[2] \in Y_RANGE
               /\ \A cc \in DOMAIN chunks' : cc[2] \in Y_RANGE]_vars

\* A Destroy of a voxel of the topmost row of the bound was applied and
\* logged; the voxel above it lies outside the bound.
TopRowDestroyed ==
    /\ last.kind = "BlockDestroyed"
    /\ \E cc \in DOMAIN actions : \E bc \in DOMAIN actions[cc] :
           /\ coords(cc, bc)[2] = TopY - 1
           /\ actions[cc][bc] = Destroy

\* The action logged for a voxel, None when there is none.
LoggedAt(log, p) ==
    IF chunk_coords(p) \in DOMAIN log /\ block_coords(p) \in DOMAIN log[chunk_coords(p)]
    THEN <<log[chunk_coords(p)][block_coords(p)]>>
    ELSE None

\* The voxels of the chunks of one store or another.
VoxelsOf(ccs) == {coords(cc, bc) : cc \in ccs, bc \in ChunkPoints}

\* The voxels an edit's Branch holds an action for.
BranchVoxels(branch) ==
    UNION {{coords(cc, bc) : bc \in DOMAIN branch.map[cc]} : cc \in DOMAIN branch.map}

\* C12: for every merge, the voxels whose block changed are exactly the
\* voxels merge logged an action for and exactly the voxels it handed to
\* light.apply (its hits); an action that did not change its voxel is
\* neither logged nor relit.
MergeLogsExactlyTheChanges ==
    [][(last'.kind \in EditKinds /\ hover # None) =>
           LET b == BranchApply(BranchDefault, chunks, EditTarget(last'.kind, hover),
                                hover[2], EditAction(last'))
               region == VoxelsOf(DOMAIN chunks \cup DOMAIN chunks')
                             \cup BranchVoxels(b.branch)
               changed == {p \in region : StoreBlock(chunks', p) # StoreBlock(chunks, p)}
               logged == {p \in region : LoggedAt(actions', p) # LoggedAt(actions, p)}
           IN  /\ logged = changed
               /\ light'.applied = light.applied \cup changed
               /\ \A p \in changed : LoggedAt(actions', p) = <<b.branch.map[chunk_coords(p)][block_coords(p)]>>]_vars

\* A Place was merged onto a voxel that holds another block: the voxel kept
\* its block, no Place is logged for it and it was not handed to light.apply.
UnchangedVoxelNotLogged ==
    /\ last.kind = "BlockPlaced"
    /\ last.block # "Air"
    /\ hover # None
    /\ LET p == Add(hover[1], hover[2])
       IN  /\ StoreBlock(chunks, p) \notin {"Air", last.block}
           /\ BranchApply(BranchDefault, chunks, p, hover[2], Place(last.block)).ok
           /\ LoggedAt(actions, p) # <<Place(last.block)>>
           /\ p \notin light.applied
           /\ out = <<>>

\* The block coords of a chunk's actions that place a block.
PlacesOf(acts) == {bc \in DOMAIN acts : acts[bc].kind = "Place" /\ acts[bc].block # "Air"}

\* C13: when merge processes the actions of a chunk coordinate absent from
\* the store, only Place actions are applied.  If one remains, a chunk that
\* holds exactly the placed blocks is inserted, the coordinate is reported as
\* an insert and the placed voxels are logged and are the chunk's hits; if
\* none remains, the store stays without the coordinate, nothing is logged
\* for it, the coordinate is in none of the returned sets and none of its
\* voxels is a hit.
VacantMergeKeepsPlaces ==
    [][last'.kind = "Merge" =>
           \A cc \in (DOMAIN last'.branch) \ DOMAIN chunks :
               LET acts == last'.branch[cc]
                   places == PlacesOf(acts)
                   voxels == {coords(cc, bc) : bc \in ChunkPoints}
               IN  IF places # {}
                   THEN /\ StoreContains(chunks', cc)
                        /\ \A bc \in ChunkPoints :
                               chunks'[cc].blocks[bc] =
                                   IF bc \in places THEN acts[bc].block ELSE "Air"
                        /\ chunks'[cc].non_air_count = Cardinality(places)
                        /\ cc \in last'.inserts /\ cc \notin last'.removals
                        /\ \A bc \in ChunkPoints :
                               LoggedAt(actions', coords(cc, bc)) =
                                   IF bc \in places THEN <<acts[bc]>>
                                   ELSE LoggedAt(actions, coords(cc, bc))
                        /\ last'.hits \cap voxels = {coords(cc, bc) : bc \in places}
                   ELSE /\ ~StoreContains(chunks', cc)
                        /\ cc \notin last'.inserts \cup last'.removals
                        /\ \A p \in voxels : LoggedAt(actions', p) = LoggedAt(actions, p)
                        /\ last'.hits \cap voxels = {}]_vars

\* A merge handed a Place and a Destroy for two voxels of an absent chunk:
\* the chunk was inserted with the placed block alone.
VacantChunkSynthesized ==
    /\ last.kind = "Merge"
    /\ \E cc \in last.inserts :
           /\ \E bc \in DOMAIN last.branch[cc] : last.branch[cc][bc] = Destroy
           /\ chunks[cc].non_air_count = 1

\* C14: the sets merge returns are exact: the inserts are the coordinates
\* absent before the merge and present after it, the removals are those
\* present before and absent after, and no coordinate is in both.
MergeSetsExact ==
    [][last'.kind = "Merge" =>
           /\ last'.inserts = (DOMAIN chunks') \ (DOMAIN chunks)
           /\ last'.removals = (DOMAIN chunks) \ (DOMAIN chunks')
           /\ last'.inserts \cap last'.removals = {}]_vars

\* One merge removed a chunk it emptied and inserted a chunk it synthesized.
MergeInsertedAndRemoved ==
    /\ last.kind = "Merge"
    /\ last.inserts # {}
    /\ last.removals # {}

\* The generator's blocks of a chunk coordinate with the logged actions of
\* the coordinate laid over them.
ReplayedBlocks(log, cc) ==
    [bc \in ChunkPoints |->
        IF LoggedAt(log, coords(cc, bc)) = None THEN Terrain(coords(cc, bc))
        ELSE LoggedAt(log, coords(cc, bc))[1].block]

\* C15: World::generate(c) returns None when c is in the store, None when the
\* generated chunk with the logged actions of c replayed is empty, and that
\* chunk otherwise; it modifies neither the ChunkStore nor the ActionStore,
\* and called again in the same state it returns the same.
GenerateIsPure ==
    [][last'.kind = "Generate" =>
           LET cc == last'.coords
               blocks == ReplayedBlocks(actions, cc)
               count == Cardinality({bc \in ChunkPoints : blocks[bc] # "Air"})
           IN  /\ UNCHANGED <<chunks, actions, light>>
               /\ last'.result =
                      IF cc \in DOMAIN chunks \/ count = 0 THEN None
                      ELSE <<[blocks |-> blocks, non_air_count |-> count,
                              glowing_count |->
                                  Cardinality({bc \in ChunkPoints :
                                                  is_glowing(blocks[bc])})]>>
               /\ (last.kind = "Generate" /\ last.coords = cc)
                      => last'.result = last.result]_vars

\* generate returned None for an absent coordinate whose generated chunk is
\* not empty: the logged actions emptied it.
GenerateDiscardedEmptyReplay ==
    /\ last.kind = "Generate"
    /\ last.result = None
    /\ ~StoreContains(chunks, last.coords)
    /\ ~ChunkIsEmpty(GeneratorGenerate(last.coords))

\* C17: ActionStore::insert(v, a) replaces the action stored for v and
\* returns the one it replaced, None when there was none; afterwards
\* actions(c) yields one pair for every voxel of c inserted so far, v
\* included, each with the action inserted last for it.
InsertIsLastWriteWins ==
    [][last'.kind = "Insert" =>
           LET v == last'.voxel
           IN  /\ last'.returned = LoggedAt(actions, v)
               /\ \A cc \in DOMAIN actions \cup {chunk_coords(v)} :
                      LET before == ActionStoreActions(actions, cc)
                          after == ActionStoreActions(actions', cc)
                      IN  /\ DOMAIN after =
                                 DOMAIN before
                                     \cup (IF cc = chunk_coords(v) THEN {block_coords(v)}
                                           ELSE {})
                          /\ \A bc \in DOMAIN after :
                                 after[bc] = IF coords(cc, bc) = v THEN last'.action
                                             ELSE before[bc]]_vars

\* An insert replaced a different action of its voxel while another voxel of
\* the same chunk keeps its own.
InsertReplacedAction ==
    /\ last.kind = "Insert"
    /\ last.returned \notin {None, <<last.action>>}
    /\ \E bc \in DOMAIN ActionStoreActions(actions, chunk_coords(last.voxel)) :
           bc # block_coords(last.voxel)

\* C16: in every sequence of world events ChunkStore::insert is never
\* called for a coordinate the store holds, so its assertion does not fire:
\* no handler that runs par_insert_many ends trapped.
InsertNeverTraps ==
    last.kind \in {"InitialRenderRequested", "WorldAreaChanged"} => panic = FALSE

\* An area change ran par_insert_many over a coordinate that entered the
\* area again: the chunk stored there holds an earlier edit, so it was in the
\* store already, and its load was sent without trapping.
AreaChangedOverStoredChunk ==
    /\ last.kind = "WorldAreaChanged"
    /\ panic = FALSE
    /\ \E cc \in AreaExclusivePoints(player.curr, player.prev) :
           /\ StoreContains(chunks, cc)
           /\ cc \in DOMAIN actions
           /\ ChunkLoaded(cc, FALSE) \in {out[i] : i \in 1 .. Len(out)}

\* The voxels the ActionStore holds an action for.
LoggedVoxels(log) ==
    UNION {{coords(cc, bc) : bc \in DOMAIN log[cc]} : cc \in DOMAIN log}

\* C18: the ActionStore never shrinks: across every world event each voxel
\* that has a logged action keeps one, also when the event is an edit that
\* empties a chunk and removes it from the ChunkStore.
LogNeverShrinks ==
    [][LoggedVoxels(actions) \subseteq LoggedVoxels(actions')]_vars

\* A Destroy emptied a chunk after an earlier Place was logged: the chunk
\* was unloaded and is absent from the store while the log holds the Place
\* and the Destroy of a voxel of the removed chunk.
LogKeptAcrossRemoval ==
    /\ last.kind = "BlockDestroyed"
    /\ \E cc \in DOMAIN actions :
           /\ ChunkUnloaded(cc) \in {out[i] : i \in 1 .. Len(out)}
           /\ ~StoreContains(chunks, cc)
           /\ \E bc \in DOMAIN actions[cc] : actions[cc][bc] = Destroy
    /\ \E p \in LoggedVoxels(actions) : LoggedAt(actions, p)[1].kind = "Place"

\* Whether both edge cells of the corner of the last vertex are opaque.
BothEdgesOpaque(v) ==
    /\ BlockAreaIsOpaque(v.area, SIDE_CORNER_COMPONENT_DELTAS(v.side, v.corner, "Edge1"))
    /\ BlockAreaIsOpaque(v.area, SIDE_CORNER_COMPONENT_DELTAS(v.side, v.corner, "Edge2"))

VertexKinds == {"Vertices", "SceneVertices"}

\* C19 as stated: for every block, side, corner and snapshot the ambient
\* occlusion of the vertex is in 0 .. 3 and is 0 exactly when both edge cells
\* of the corner are opaque.
AoZeroIffEdgesOpaque ==
    (last.kind \in VertexKinds /\ last.ao # None) =>
        /\ last.ao[1] \in 0 .. 3
        /\ last.ao[1] = 0 <=> BothEdgesOpaque(last)

\* C19: for every block, side, corner and snapshot the ambient occlusion of
\* the vertex is in 0 .. 3; for a block with smooth lighting, and for every
\* block of the scene, it is 0 exactly when both edge cells of the corner are
\* opaque, and for a block without smooth lighting it is 3 whatever the
\* snapshot.
AoZeroIffEdgesOpaqueWhenSmooth ==
    (last.kind \in VertexKinds /\ last.ao # None) =>
        /\ last.ao[1] \in 0 .. 3
        /\ IF last.kind = "SceneVertices" \/ last.smooth_lighting
           THEN last.ao[1] = 0 <=> BothEdgesOpaque(last)
           ELSE last.ao[1] = 3

\* The vertex of a corner whose two edge cells are opaque and whose diagonal
\* cell is transparent was computed for a block with smooth lighting.
AoOfEnclosedCorner ==
    /\ last.kind = "Vertices"
    /\ last.smooth_lighting
    /\ last.ao = <<0>>
    /\ BothEdgesOpaque(last)
    /\ BlockAreaIsTransparent(last.area,
                              SIDE_CORNER_COMPONENT_DELTAS(last.side, last.corner, "Corner"))

\* The chunks around a chunk: its 26-neighborhood, 8 chunks in two dimensions.
Neighborhood(cc) == {Add(cc, d) : d \in ChunkAreaDeltas \ {<<0, 0>>}}

\* The chunk events sent by the last handler.
Sent == {out[i] : i \in 1 .. Len(out)}

\* The first step of the scenario: a solid block is placed, from the cached
\* hover, at local coordinate (0, 0) of a chunk that is empty, which the store
\* keeps absent, and lies inside the viewer's area.
PlacesIntoEmptyChunk(cc) ==
    /\ hover # None
    /\ EditTarget("BlockPlaced", hover) = coords(cc, <<0, 0>>)
    /\ cc[2] \in Y_RANGE
    /\ ~StoreContains(chunks, cc)
    /\ AreaContains(player.curr, cc)
    /\ last'.kind = "BlockPlaced"
    /\ last'.block # "Air"
    /\ valid_surface(last'.block) = "None"

\* The second step of the scenario: the cached hover is the block at local
\* coordinate (0, 0) of a chunk inside the viewer's area, the only block of the
\* chunk, and it is destroyed.
DestroysOnlyBlock(cc) ==
    /\ hover # None
    /\ hover[1] = coords(cc, <<0, 0>>)
    /\ StoreContains(chunks, cc)
    /\ \A bc \in ChunkPoints : chunks[cc].blocks[bc] # "Air" <=> bc = <<0, 0>>
    /\ AreaContains(player.curr, cc)
    /\ last'.kind = "BlockDestroyed"

\* C20 as stated: placing a solid block at local coordinate (0, 0) of an
\* empty chunk inside the viewer's area makes the chunk non-empty and sends
\* ChunkUpdated for the chunk and for every chunk of its neighborhood;
\* destroying the voxel afterwards empties the chunk and sends ChunkUnloaded
\* for its coordinate.
PlaceUpdatesWholeNeighborhood ==
    [][\A cc \in {chunk_coords(p) : p \in Positions} :
           /\ PlacesIntoEmptyChunk(cc) =>
                  /\ StoreContains(chunks', cc)
                  /\ ~ChunkIsEmpty(chunks'[cc])
                  /\ \A c \in {cc} \cup Neighborhood(cc) :
                         ChunkUpdated(c, TRUE) \in Sent'
           /\ DestroysOnlyBlock(cc) =>
                  /\ ~StoreContains(chunks', cc)
                  /\ ChunkUnloaded(cc) \in Sent']_vars

\* C20: placing a solid block at local coordinate (0, 0) of an empty chunk
\* inside the viewer's area stores the chunk with that one block and sends
\* ChunkLoaded and no ChunkUpdated for the chunk.  ChunkUpdated is sent for
\* every chunk of the voxels around the placed one that is stored and
\* inside the area (chunks at the offsets 0 and -1); any other ChunkUpdated
\* of the step, for a chunk around a voxel whose light changed, is for a
\* chunk stored before and inside the area as well.  Destroying the voxel
\* afterwards removes the chunk from the store and sends ChunkUnloaded for
\* its coordinate.
PlaceLoadsChunkAndUpdatesStoredNeighbors ==
    [][\A cc \in {chunk_coords(p) : p \in Positions} :
           /\ PlacesIntoEmptyChunk(cc) =>
                  /\ StoreContains(chunks', cc)
                  /\ \A bc \in ChunkPoints :
                         chunks'[cc].blocks[bc] =
                             IF bc = <<0, 0>> THEN last'.block ELSE "Air"
                  /\ ChunkLoaded(cc, TRUE) \in Sent'
                  /\ \A c \in Neighborhood(cc) :
                         (/\ c[1] \in {cc[1] - 1, cc[1]}
                          /\ c[2] \in {cc[2] - 1, cc[2]}
                          /\ StoreContains(chunks, c)
                          /\ AreaContains(player.curr, c))
                             => ChunkUpdated(c, TRUE) \in Sent'
                  /\ \A e \in Sent' :
                         e.kind = "ChunkUpdated" =>
                             /\ e.coords # cc
                             /\ e.is_important
                             /\ StoreContains(chunks, e.coords)
                             /\ AreaContains(player.curr, e.coords)
           /\ DestroysOnlyBlock(cc) =>
                  /\ ~StoreContains(chunks', cc)
                  /\ ChunkUnloaded(cc) \in Sent']_vars

\* The scenario ran to its end: the last event destroyed the voxel in front
\* of the viewer, the only voxel of its chunk on the ray, at local coordinate
\* (0, 0); the generator leaves the voxel air, so the block was placed
\* before; the chunk is absent and its unload was sent.
PlacedBlockDestroyedAgain ==
    /\ last.kind = "BlockDestroyed"
    /\ \E cc \in DOMAIN actions :
           /\ Add(player.ray.origin, player.ray.dir) = coords(cc, <<0, 0>>)
           /\ \A k \in 2 .. Reach :
                  chunk_coords(Add(player.ray.origin, Scale(k, player.ray.dir))) # cc
           /\ Terrain(coords(cc, <<0, 0>>)) = "Air"
           /\ LoggedAt(actions, coords(cc, <<0, 0>>)) = <<Destroy>>
           /\ ~StoreContains(chunks, cc)
           /\ ChunkUnloaded(cc) \in Sent

\* How many times an event occurs in a sequence of sent events.
Occurrences(events, e) == Cardinality({i \in 1 .. Len(events) : events[i] = e})

\* The chunk coordinates of the box around an area, within the vertical bound.
AreaBox(area) ==
    {cc \in ((area.center[1] - area.radius) .. (area.center[1] + area.radius)) \X
            ((area.center[2] - area.radius) .. (area.center[2] + area.radius)) :
        cc[2] \in Y_RANGE}

\* The step handles a WorldAreaChanged to an area of the same center and a
\* smaller radius.
ShrinksArea ==
    /\ last'.kind = "WorldAreaChanged"
    /\ player'.curr.center = player'.prev.center
    /\ player'.curr.radius < player'.prev.radius

\* C21 as stated: a WorldAreaChanged to the same center and a smaller radius
\* sends exactly one ChunkUnloaded for each chunk coordinate inside the former
\* area and outside the new one, and sends no ChunkLoaded or ChunkUpdated.
ShrinkUnloadsEveryCoordinate ==
    [][ShrinksArea =>
           /\ \A cc \in AreaBox(player'.prev) :
                  (AreaContains(player'.prev, cc) /\ ~AreaContains(player'.curr, cc)) =>
                      Occurrences(out', ChunkUnloaded(cc)) = 1
           /\ \A i \in 1 .. Len(out') :
                  out'[i].kind \notin {"ChunkLoaded", "ChunkUpdated"}]_vars

\* C21: a WorldAreaChanged to the same center and a smaller radius sends
\* exactly one ChunkUnloaded for each chunk coordinate inside the former area
\* and outside the new one that the store holds a chunk for, none for any
\* other coordinate, and sends no ChunkLoaded or ChunkUpdated.
ShrinkUnloadsStoredChunks ==
    [][ShrinksArea =>
           /\ \A cc \in AreaBox(player'.prev) :
                  Occurrences(out', ChunkUnloaded(cc)) =
                      IF /\ AreaContains(player'.prev, cc)
                         /\ ~AreaContains(player'.curr, cc)
                         /\ StoreContains(chunks, cc)
                      THEN 1 ELSE 0
           /\ \A i \in 1 .. Len(out') :
                  /\ out'[i].kind \notin {"ChunkLoaded", "ChunkUpdated"}
                  /\ out'[i].kind = "ChunkUnloaded" => out'[i].coords \in AreaBox(player'.prev)
           /\ chunks' = chunks]_vars

\* An area was shrunk around its center: a stored chunk that left the area
\* was unloaded, and a coordinate that left it without a stored chunk got no
\* event.
AreaShrunkOverStoredAndEmpty ==
    /\ last.kind = "WorldAreaChanged"
    /\ player.curr.center = player.prev.center
    /\ player.curr.radius < player.prev.radius
    /\ \E cc \in AreaBox(player.prev) :
           /\ ~AreaContains(player.curr, cc)
           /\ StoreContains(chunks, cc)
           /\ ChunkUnloaded(cc) \in Sent
    /\ \E cc \in AreaBox(player.prev) :
           /\ AreaContains(player.prev, cc)
           /\ ~AreaContains(player.curr, cc)
           /\ ~StoreContains(chunks, cc)
           /\ ChunkUnloaded(cc) \notin Sent

-----------------------------------------------------------------------------
(* The order of the initial render *)

\* C30: the ChunkLoaded events sent for an InitialRenderRequested are in
\* non-decreasing order of squared distance between their chunk and the chunk
\* of the viewer's ray origin, and the BlockHovered event of that request, if
\* any, is sent before all of them.
InitialLoadsNearestFirst ==
    last.kind = "InitialRenderRequested" =>
        \A i \in 1 .. Len(out), j \in 1 .. Len(out) :
            /\ (i < j /\ out[i].kind = "ChunkLoaded" /\ out[j].kind = "ChunkLoaded") =>
                   magnitude_squared(out[i].coords, chunk_coords(player.ray.origin))
                       <= magnitude_squared(out[j].coords, chunk_coords(player.ray.origin))
            /\ (out[i].kind = "BlockHovered" /\ out[j].kind = "ChunkLoaded") => i < j
            /\ out[i].kind \in {"BlockHovered", "ChunkLoaded"}

\* An initial render sent a hover and then chunks at two different distances
\* from the viewer's chunk.
InitialRenderHoveredThenLoaded ==
    /\ last.kind = "InitialRenderRequested"
    /\ Len(out) >= 3
    /\ out[1].kind = "BlockHovered"
    /\ \E i \in 2 .. Len(out), j \in 2 .. Len(out) :
           /\ out[i].kind = "ChunkLoaded" /\ out[j].kind = "ChunkLoaded"
           /\ magnitude_squared(out[i].coords, chunk_coords(player.ray.origin))
                  < magnitude_squared(out[j].coords, chunk_coords(player.ray.origin))

-----------------------------------------------------------------------------
(* The streaming bridge: the accept loop and the three threads of a
   connection *)

\* A record the simulation enqueues; id is its rank among the enqueued ones.
ServerEvent(id) == [kind |-> "Event", id |-> id, from |-> 0]

\* ServerEvent::ClientDisconnected, with the connection whose reader sent it
ClientDisconnected(c) == [kind |-> "ClientDisconnected", id |-> 0, from |-> c]

\* The threads of the connections before c, spawned outside a joining scope.
ScopeDetached(conns, c) == TRUE

\* thread::scope around the three threads of a connection : the accept loop
\* reaches its next iteration when the threads of the connections before
\* have all ended
ScopeJoined(conns, c) ==
    \A d \in Connections :
        d < c => /\ conns[d].priority_writer = "closed"
                 /\ conns[d].writer = "closed"
                 /\ conns[d].reader = "closed"

\* matches!(event, ServerEvent::ClientDisconnected)
IsDisconnect(event) == event.kind = "ClientDisconnected"

\* The reader leaving on reset or end of stream without a marker.
ReaderLeavesSilently(queue, c) == queue

\* server_tx.send(ServerEvent::ClientDisconnected) of the reader
ReaderDisconnects(queue, c) == Append(queue, ClientDisconnected(c))

\* The reader ending its loop on every read error.
ReaderContinuesOnlyOnOk(outcome, srv) == outcome = "Ok" /\ srv = "running"

\* The reader's loop : it goes on after a forwarded record and after an error
\* other than reset or end of stream, and breaks on reset or end of stream
\* and when client_tx.send fails
ReaderContinues(outcome, srv) ==
    \/ outcome = "Other"
    \/ outcome = "Ok" /\ srv = "running"

\* What a read of the priority stream can give: a record, an error other
\* than reset or end of stream, or reset or end of stream.  The client is
\* free to close either socket at any time, so every outcome is possible at
\* every read.
ReadOutcomes == {"Ok", "Other", "Eof"}

\* What the write of one record can give: serialize_into and flush succeed,
\* or one of them fails, with a broken pipe or with another error.  Each
\* writer has a socket of its own, and what the reader meets on the
\* priority socket decides nothing about a write on the bulk socket.
WriteOutcomes ==
    {"Ok", "SerializeFailed", "FlushFailed", "SerializeBrokenPipe", "FlushBrokenPipe"}

\* The bytes bincode::serialize_into writes for a record, as the two parts a
\* failed write can separate: a record is cut when its head alone is written.
Bytes(event) ==
    <<[kind |-> event.kind, id |-> event.id, from |-> event.from, part |-> "head"],
      [kind |-> event.kind, id |-> event.id, from |-> event.from, part |-> "tail"]>>

\* BufWriter::flush_buf : the bytes of the buffer go to the socket in order
\* until a write fails; those written leave the buffer, the others stay.
FlushBuf(buffer) ==
    {[written |-> SubSeq(buffer, 1, k), kept |-> SubSeq(buffer, k + 1, Len(buffer))] :
         k \in 0 .. Len(buffer)}

\* The body of a writer's loop for one record: bincode::serialize_into the
\* BufWriter, then flush.  A broken pipe breaks the loop, another error is
\* logged and the loop goes on.  serialize_into fails with the record not or
\* partly buffered, after the BufWriter wrote out some or all of what it
\* held to make room; flush fails with some of the buffer left in it.
Write(stream, buffer, event, outcome) ==
    CASE outcome = "Ok" ->
            {[stream |-> stream \o buffer \o Bytes(event), buffer |-> <<>>,
              running |-> TRUE, logged |-> FALSE]}
      [] outcome \in {"SerializeFailed", "SerializeBrokenPipe"} ->
            {[stream |-> stream \o f.written, buffer |-> f.kept,
              running |-> outcome = "SerializeFailed",
              logged |-> outcome = "SerializeFailed"] :
                 f \in UNION {FlushBuf(buffer \o SubSeq(Bytes(event), 1, k)) :
                                  k \in 0 .. Len(Bytes(event)) - 1}}
      [] outcome \in {"FlushFailed", "FlushBrokenPipe"} ->
            {[stream |-> stream \o f.written, buffer |-> f.kept,
              running |-> outcome = "FlushFailed",
              logged |-> outcome = "FlushFailed"] :
                 f \in {g \in FlushBuf(buffer \o Bytes(event)) : g.kept # <<>>}}

\* The BufWriter dropped at the end of a writer thread: its flush_buf writes
\* out the buffer until a write fails, and what is left is lost.
Drop(stream, buffer) == {stream \o f.written : f \in FlushBuf(buffer)}

\* The state the bridge starts from: nothing handled by the world.
InitBridge ==
    /\ chunks = EmptyMap
    /\ actions = EmptyMap
    /\ light = LightDefault
    /\ hover = None
    /\ player = [started |-> FALSE,
                 prev |-> WorldArea(<<0, 0>>),
                 curr |-> WorldArea(<<0, 0>>),
                 ray |-> [origin |-> <<0, 0>>, dir |-> <<1, 0>>]]
    /\ requested = {}
    /\ out = <<>>
    /\ tried = <<>>
    /\ proxy = Unlimited
    /\ panic = FALSE
    /\ last = [kind |-> "None"]
    /\ nevents = 0
    /\ BridgeInit

\* The accept loop takes the next pair of streams and spawns the priority
\* writer, the bulk writer and the reader of the connection.
Accept ==
    \E c \in Connections :
        /\ connections[c].reader = "unborn"
        /\ \A d \in Connections : d < c => connections[d].reader # "unborn"
        /\ ScopeJoined(connections, c)
        /\ connections' = [connections EXCEPT ![c].priority_writer = "running",
                                              ![c].writer = "running",
                                              ![c].reader = "running"]
        /\ last' = [kind |-> "Accept"]
        /\ UNCHANGED <<world_vars, client_rx, priority_server_rx, server_rx, server, enqueued>>

\* The simulation sends a record on the bulk channel.
ServerSends ==
    /\ server = "running"
    /\ enqueued < MaxRecords
    /\ server_rx' = Append(server_rx, ServerEvent(enqueued + 1))
    /\ enqueued' = enqueued + 1
    /\ last' = [kind |-> "ServerSends"]
    /\ UNCHANGED <<world_vars, client_rx, priority_server_rx, connections, server>>

\* The simulation sends a record on the priority channel.
ServerSendsPriority ==
    /\ server = "running"
    /\ enqueued < MaxRecords
    /\ priority_server_rx' = Append(priority_server_rx, ServerEvent(enqueued + 1))
    /\ enqueued' = enqueued + 1
    /\ last' = [kind |-> "ServerSendsPriority"]
    /\ UNCHANGED <<world_vars, client_rx, server_rx, connections, server>>

\* Server::run unwinds: the Server is dropped, and with it the receiver of
\* the intent queue and the sender of the priority queue.  The sender of the
\* bulk queue that main keeps for the readers stays.
ServerUnwinds ==
    /\ server = "running"
    /\ server' = "dropped"
    /\ last' = [kind |-> "ServerUnwinds"]
    /\ UNCHANGED <<world_vars, client_rx, priority_server_rx, server_rx, connections, enqueued>>

\* The reader's blocking read: bincode::deserialize_from the priority
\* stream returns.  An error other than reset or end of stream is logged and
\* the loop goes on; a record, and a reset or end of stream, are acted on in
\* the reader's next step.
ReaderReads(c) ==
    /\ connections[c].reader = "running"
    /\ connections[c].read = "None"
    /\ \E outcome \in ReadOutcomes :
           /\ outcome = "Ok" /\ server = "running" => Len(client_rx) < MaxIntents
           /\ connections' =
                  [connections EXCEPT
                     ![c].reader = IF outcome = "Other" /\ ~ReaderContinues(outcome, server)
                                   THEN "closed" ELSE "running",
                     ![c].read = IF outcome = "Other" THEN "None" ELSE outcome,
                     ![c].detected = @ \/ outcome = "Eof"]
           /\ last' = [kind |-> "ReaderReads", conn |-> c, outcome |-> outcome,
                       logged |-> outcome = "Other"]
    /\ UNCHANGED <<world_vars, client_rx, priority_server_rx, server_rx, server, enqueued>>

\* The reader's send: server_tx.send of the marker and break after a reset
\* or the end of the stream, client_tx.send of the record read otherwise,
\* with a break when that send fails.
ReaderSends(c) ==
    /\ connections[c].reader = "running"
    /\ connections[c].read # "None"
    /\ \E outcome \in {connections[c].read} :
           /\ client_rx' = IF outcome = "Ok" /\ server = "running"
                           THEN Append(client_rx, "ClientEvent") ELSE client_rx
           /\ server_rx' = IF outcome = "Eof"
                           THEN ReaderDisconnects(server_rx, c) ELSE server_rx
           /\ connections' =
                  [connections EXCEPT
                     ![c].reader = IF ReaderContinues(outcome, server)
                                   THEN "running" ELSE "closed",
                     ![c].read = "None"]
           /\ last' = [kind |-> "ReaderSends", conn |-> c, outcome |-> outcome,
                       logged |-> FALSE]
    /\ UNCHANGED <<world_vars, priority_server_rx, server, enqueued>>

\* The bulk writer's receive: `for event in &server_rx` hands it the next
\* record of the bulk queue.
WriterTakes(c) ==
    /\ connections[c].writer = "running"
    /\ connections[c].taken = <<>>
    /\ server_rx # <<>>
    /\ server_rx' = Tail(server_rx)
    /\ connections' = [connections EXCEPT ![c].taken = <<Head(server_rx)>>]
    /\ last' = [kind |-> "WriterTakes", conn |-> c, outcome |-> "Taken"]
    /\ UNCHANGED <<world_vars, client_rx, priority_server_rx, server, enqueued>>

\* The body of the bulk writer's loop for the record it received: the
\* disconnect marker ends the loop, another record is written.  The
\* BufWriter is dropped when the loop ends.
WriterWrites(c) ==
    /\ connections[c].writer = "running"
    /\ connections[c].taken # <<>>
    /\ \E event \in {connections[c].taken[1]} :
           IF IsDisconnect(event)
           THEN /\ \E dropped \in Drop(connections[c].stream, connections[c].buffer) :
                       connections' =
                           [connections EXCEPT
                              ![c].writer = "closed",
                              ![c].taken = <<>>,
                              ![c].stream = dropped,
                              ![c].buffer = <<>>]
                /\ last' = [kind |-> "WriterWrites", conn |-> c, outcome |-> "Disconnected"]
           ELSE \E outcome \in WriteOutcomes :
                \E w \in Write(connections[c].stream, connections[c].buffer,
                               event, outcome) :
                \E sent \in (IF w.running THEN {w.stream} ELSE Drop(w.stream, w.buffer)) :
                    /\ connections' =
                           [connections EXCEPT
                              ![c].writer = IF w.running THEN "running" ELSE "closed",
                              ![c].taken = <<>>,
                              ![c].stream = sent,
                              ![c].buffer = IF w.running THEN w.buffer ELSE <<>>]
                    /\ last' = [kind |-> "WriterWrites", conn |-> c, outcome |-> outcome]
    /\ UNCHANGED <<world_vars, client_rx, priority_server_rx, server_rx, server, enqueued>>

\* The priority writer's receive: `for event in &priority_server_rx` hands
\* it the next record of the priority queue.
PriorityWriterTakes(c) ==
    /\ connections[c].priority_writer = "running"
    /\ connections[c].priority_taken = <<>>
    /\ priority_server_rx # <<>>
    /\ priority_server_rx' = Tail(priority_server_rx)
    /\ connections' = [connections EXCEPT ![c].priority_taken = <<Head(priority_server_rx)>>]
    /\ last' = [kind |-> "PriorityWriterTakes"]
    /\ UNCHANGED <<world_vars, client_rx, server_rx, server, enqueued>>

\* The body of the priority writer's loop: the record it received is
\* written, whatever it is.  The BufWriter is dropped when the loop ends.
PriorityWriterWrites(c) ==
    /\ connections[c].priority_writer = "running"
    /\ connections[c].priority_taken # <<>>
    /\ \E event \in {connections[c].priority_taken[1]} :
       \E outcome \in WriteOutcomes :
       \E w \in Write(connections[c].priority_stream, connections[c].priority_buffer,
                      event, outcome) :
       \E sent \in (IF w.running THEN {w.stream} ELSE Drop(w.stream, w.buffer)) :
           /\ connections' =
                  [connections EXCEPT
                     ![c].priority_writer = IF w.running THEN "running" ELSE "closed",
                     ![c].priority_taken = <<>>,
                     ![c].priority_stream = sent,
                     ![c].priority_buffer = IF w.running THEN w.buffer ELSE <<>>]
           /\ last' = [kind |-> "PriorityWriterWrites"]
    /\ UNCHANGED <<world_vars, client_rx, priority_server_rx, server_rx, server, enqueued>>

\* The priority writer's loop ends when it waits on an empty queue and the
\* Server, which holds the only sender, has been dropped.
PriorityWriterEnds(c) ==
    /\ connections[c].priority_writer = "running"
    /\ connections[c].priority_taken = <<>>
    /\ priority_server_rx = <<>>
    /\ server = "dropped"
    /\ \E dropped \in Drop(connections[c].priority_stream, connections[c].priority_buffer) :
           connections' =
               [connections EXCEPT
                  ![c].priority_writer = "closed",
                  ![c].priority_stream = dropped,
                  ![c].priority_buffer = <<>>]
    /\ last' = [kind |-> "PriorityWriterEnds"]
    /\ UNCHANGED <<world_vars, client_rx, priority_server_rx, server_rx, server, enqueued>>

ReaderReadsStep == \E c \in Connections : ReaderReads(c)
ReaderSendsStep == \E c \in Connections : ReaderSends(c)
WriterTakesStep == \E c \in Connections : WriterTakes(c)
WriterWritesStep == \E c \in Connections : WriterWrites(c)
PriorityWriterTakesStep == \E c \in Connections : PriorityWriterTakes(c)
PriorityWriterWritesStep == \E c \in Connections : PriorityWriterWrites(c)
PriorityWriterEndsStep == \E c \in Connections : PriorityWriterEnds(c)

NextBridge ==
    \/ Accept
    \/ ServerSends
    \/ ServerSendsPriority
    \/ ServerUnwinds
    \/ ReaderReadsStep
    \/ ReaderSendsStep
    \/ WriterTakesStep
    \/ WriterWritesStep
    \/ PriorityWriterTakesStep
    \/ PriorityWriterWritesStep
    \/ PriorityWriterEndsStep

SpecBridge == InitBridge /\ [][NextBridge]_vars

\* Under the fairness conditions the simulation enqueues one record less.
MaxFairRecords == MaxRecords - 1
ServerSendsFair == enqueued < MaxFairRecords /\ ServerSends
ServerSendsPriorityFair == enqueued < MaxFairRecords /\ ServerSendsPriority

NextBridgeFair ==
    \/ Accept
    \/ ServerSendsFair
    \/ ServerSendsPriorityFair
    \/ ServerUnwinds
    \/ ReaderReadsStep
    \/ ReaderSendsStep
    \/ WriterTakesStep
    \/ WriterWritesStep
    \/ PriorityWriterTakesStep
    \/ PriorityWriterWritesStep
    \/ PriorityWriterEndsStep

\* The threads are scheduled by the operating system: a thread that is not
\* waiting in a read or on an empty queue is eventually run.  That is a
\* reader holding the result of its read, a bulk writer with a record to
\* take and a bulk writer holding a record.
SpecBridgeFair ==
    /\ InitBridge
    /\ [][NextBridgeFair]_vars
    /\ WF_vars(ReaderSendsStep)
    /\ WF_vars(WriterTakesStep)
    /\ WF_vars(WriterWritesStep)

\* Every thread of a connection that can take a step of its loop is
\* eventually run.  The simulation is under no obligation to send.
SpecBridgeThreadsFair ==
    /\ InitBridge
    /\ [][NextBridge]_vars
    /\ WF_vars(ReaderReadsStep)
    /\ WF_vars(ReaderSendsStep)
    /\ WF_vars(WriterTakesStep)
    /\ WF_vars(WriterWritesStep)
    /\ WF_vars(PriorityWriterTakesStep)
    /\ WF_vars(PriorityWriterWritesStep)
    /\ WF_vars(PriorityWriterEndsStep)

-----------------------------------------------------------------------------
(* Properties of the streaming bridge *)

Range(seq) == {seq[i] : i \in 1 .. Len(seq)}

\* The bytes a connection's bulk writer has put on its stream or in its
\* BufWriter.
BulkRecords(conn) == Range(conn.stream) \cup Range(conn.buffer)

\* The marker of connection c was sent by its reader and has left the bulk
\* queue: a bulk writer received it.
MarkerTaken(conns, queue, c) ==
    /\ conns[c].detected
    /\ conns[c].reader = "closed"
    /\ ClientDisconnected(c) \notin Range(queue)

\* C22 as stated: once the disconnect of a connection has been detected, no
\* byte of a bulk record is written by that connection's bulk writer.
NoBulkRecordAfterDetection ==
    [][\A c \in Connections :
           connections[c].detected =>
               BulkRecords(connections'[c]) \subseteq BulkRecords(connections[c])]_vars

\* The bytes a connection's bulk writer, and its priority writer, has
\* written or holds, in order, followed by the bytes of the record it has
\* received and has yet to write.
BulkHeld(conn) ==
    conn.stream \o conn.buffer
        \o (IF conn.taken # <<>> /\ ~IsDisconnect(conn.taken[1])
            THEN Bytes(conn.taken[1]) ELSE <<>>)
PriorityHeld(conn) ==
    conn.priority_stream \o conn.priority_buffer
        \o (IF conn.priority_taken # <<>> THEN Bytes(conn.priority_taken[1]) ELSE <<>>)

\* The ranks of the records of the simulation some bytes, or some queued
\* records, belong to.
RecordIds(seq) == {r.id : r \in {x \in Range(seq) : x.kind = "Event"}}

\* The bytes of a sequence are in the order the simulation enqueued their
\* records, the head of a record before its tail, and none occurs twice:
\* every byte is followed by a byte of a later record or by the tail it is
\* the head of.
InEnqueueOrder(seq) ==
    \A i \in 1 .. Len(seq) - 1 :
        \/ seq[i].id < seq[i + 1].id
        \/ /\ seq[i].id = seq[i + 1].id
           /\ seq[i].part = "head"
           /\ seq[i + 1].part = "tail"

\* C23: the bytes a connection's bulk writer, and its priority writer, puts
\* on its stream belong to records in the order in which the simulation
\* enqueued them, the bytes of a record in their order and none twice, a
\* failed write leaving a record cut or out but never out of place; no
\* record received is left in the queue or received by another connection,
\* and each queue has at most one writer taking records from it at any time.
ChannelsAreFifo ==
    LET bulk == Table([c \in Connections |-> BulkHeld(connections[c])])
        priority == Table([c \in Connections |-> PriorityHeld(connections[c])])
        bulk_ids == Table([c \in Connections |-> RecordIds(bulk[c])])
        priority_ids == Table([c \in Connections |-> RecordIds(priority[c])])
    IN  /\ \A c \in Connections :
               /\ InEnqueueOrder(bulk[c])
               /\ InEnqueueOrder(priority[c])
               /\ bulk_ids[c] \cap RecordIds(server_rx) = {}
               /\ priority_ids[c] \cap RecordIds(priority_server_rx) = {}
        /\ \A c \in Connections, d \in Connections :
               c # d => /\ bulk_ids[c] \cap bulk_ids[d] = {}
                        /\ priority_ids[c] \cap priority_ids[d] = {}
        /\ Cardinality({c \in Connections : connections[c].writer = "running"}) <= 1
        /\ Cardinality({c \in Connections : connections[c].priority_writer = "running"}) <= 1

\* A bulk writer has written two records whole and has ended, and a later
\* connection has been accepted whose bulk writer is the one running.
TwoRecordsWrittenInOrder ==
    \E c \in Connections, d \in Connections :
        /\ c < d
        /\ \E r1 \in 1 .. MaxRecords, r2 \in 1 .. MaxRecords :
               connections[c].stream = Bytes(ServerEvent(r1)) \o Bytes(ServerEvent(r2))
        /\ connections[c].writer = "closed"
        /\ connections[d].writer = "running"

\* C24: a reader that detects a reset or the end of the stream appends the
\* ClientDisconnected marker to the bulk queue and stops, and does nothing
\* else in between; no byte of a marker is ever written or buffered; once
\* the marker has left the queue no byte of a record enters the stream or
\* the BufWriter of the connection's bulk writer, whose drop can only write
\* out bytes it held; and under fair scheduling the reader does send the
\* marker and the bulk writer of that connection eventually terminates.
DisconnectStopsBulkWriter ==
    /\ [][\A c \in Connections :
              /\ (connections[c].reader = "running" /\ connections[c].read = "Eof")
                     => \/ /\ connections'[c].reader = "running"
                           /\ connections'[c].read = "Eof"
                           /\ client_rx' = client_rx
                           /\ ClientDisconnected(c) \notin Range(server_rx')
                        \/ /\ last' = [kind |-> "ReaderSends", conn |-> c,
                                       outcome |-> "Eof", logged |-> FALSE]
                           /\ server_rx' = Append(server_rx, ClientDisconnected(c))
                           /\ client_rx' = client_rx
                           /\ connections'[c].reader = "closed"
              /\ last' = [kind |-> "ReaderReads", conn |-> c, outcome |-> "Eof",
                          logged |-> FALSE]
                     => /\ connections'[c].detected
                        /\ connections'[c].reader = "running"
                        /\ connections'[c].read = "Eof"
              /\ MarkerTaken(connections, server_rx, c)
                     => BulkRecords(connections'[c]) \subseteq BulkRecords(connections[c])
              /\ connections'[c].detected
                     => \/ connections'[c].reader = "closed"
                        \/ connections'[c].read = "Eof"]_vars
    /\ \A c \in Connections :
           [](\A b \in BulkRecords(connections[c]) : ~IsDisconnect(b))
    /\ \A c \in Connections :
           connections[c].detected ~> connections[c].reader = "closed"
    /\ \A c \in Connections :
           connections[c].detected ~> connections[c].writer = "closed"

\* The bulk writer of a connection received the marker of its own reader and
\* ended, with a record of the simulation left behind it in the queue.
WriterStoppedByOwnMarker ==
    \E c \in Connections :
        /\ last = [kind |-> "WriterWrites", conn |-> c, outcome |-> "Disconnected"]
        /\ connections[c].detected
        /\ connections[c].writer = "closed"
        /\ ClientDisconnected(c) \notin Range(server_rx)
        /\ \A d \in Connections : d < c => ~connections[d].detected
        /\ \E r \in Range(server_rx) : r.kind = "Event"

\* C25: a ClientDisconnected marker ends the bulk writer of the connection
\* whose reader enqueued it, and never the bulk writer of another
\* connection.
MarkerStopsItsOwnWriter ==
    [][\A c \in Connections :
           (/\ connections[c].writer = "running"
            /\ connections'[c].writer = "closed"
            /\ connections[c].taken # <<>>
            /\ IsDisconnect(connections[c].taken[1]))
               => connections[c].taken[1].from = c]_vars

\* C26: a read error that is neither a reset nor the end of the stream is
\* logged and leaves the reader running, at its next read, with the queues
\* untouched; a reader stops only in a step of its own that follows a reset
\* or the end of the stream, or that could not forward a record because the
\* intent queue is closed.
ReaderSurvivesOtherErrors ==
    [][\A c \in Connections :
           connections[c].reader = "running" =>
               /\ (last'.kind = "ReaderReads" /\ last'.conn = c /\ last'.outcome = "Other")
                      => /\ last'.logged
                         /\ connections'[c].reader = "running"
                         /\ connections'[c].read = "None"
                         /\ client_rx' = client_rx
                         /\ server_rx' = server_rx
               /\ connections'[c].reader = "closed"
                      => /\ last'.kind = "ReaderSends" /\ last'.conn = c
                         /\ \/ last'.outcome = "Eof"
                            \/ last'.outcome = "Ok" /\ server = "dropped"]_vars

\* A reader met an error other than a reset or the end of the stream, logged
\* it and is still running, no disconnect having been detected.
ReaderRunningAfterOtherError ==
    \E c \in Connections :
        /\ last = [kind |-> "ReaderReads", conn |-> c, outcome |-> "Other", logged |-> TRUE]
        /\ connections[c].reader = "running"
        /\ connections[c].read = "None"
        /\ ~connections[c].detected

-----------------------------------------------------------------------------
(* Lighting and the outbound events *)

\* C28: while a world event is handled, every ChunkLoaded, ChunkUpdated and
\* BlockHovered event is built from the world as the handler leaves it, that
\* is after its last mutation and after the lighting for it: the chunks
\* inserted by the event are inserted in the light, and the voxels an edit
\* changed have had the light applied.
EventsSentAfterLighting ==
    [][nevents' = nevents + 1 =>
           /\ \A i \in 1 .. Len(tried') : tried'[i].fresh
           /\ (DOMAIN chunks' \ DOMAIN chunks) \subseteq light'.inserts
           /\ \A v \in VoxelsOf((DOMAIN chunks) \cup (DOMAIN chunks')) :
                  (/\ last'.kind \in {"BlockPlaced", "BlockDestroyed"}
                   /\ StoreBlock(chunks', v) # StoreBlock(chunks, v))
                      => v \in light'.applied]_vars

\* An edit changed the store and the light, and its handler sent the new
\* hover and a chunk update.
EditSentHoverAndUpdate ==
    /\ last.kind \in {"BlockPlaced", "BlockDestroyed"}
    /\ light.applied # {}
    /\ Len(out) >= 2
    /\ Len(tried) = Len(out)
    /\ \A i \in 1 .. Len(tried) : tried[i].fresh /\ tried[i].event = out[i]
    /\ out[1].kind = "BlockHovered"
    /\ \E i \in 2 .. Len(out) : out[i].kind = "ChunkUpdated"

-----------------------------------------------------------------------------
(* A proxy whose receiver goes away during the session *)

\* Number of events the receiver takes before it is dropped.
MaxCredit == 5

\* A session in front of a receiver that takes some events and is dropped.
InitClosing ==
    /\ chunks = EmptyMap
    /\ actions = EmptyMap
    /\ light = LightDefault
    /\ hover = None
    /\ player = [started |-> FALSE,
                 prev |-> WorldArea(<<0, 0>>),
                 curr |-> WorldArea(<<0, 0>>),
                 ray |-> [origin |-> <<0, 0>>, dir |-> <<1, 0>>]]
    /\ requested = {}
    /\ out = <<>>
    /\ tried = <<>>
    /\ proxy \in 0 .. MaxCredit
    /\ panic = FALSE
    /\ last = [kind |-> "None", block |-> "Air"]
    /\ nevents = 0
    /\ BridgeInit

SpecClosing == InitClosing /\ [][NextScenario]_vars

Min(a, b) == IF a <= b THEN a ELSE b

\* C27: when a send fails because the receiver is gone, the emission loop
\* stops at that event without a panic: the events delivered are the ones
\* before it, in order, no later event is sent, the handler returns, and the
\* changes the handler made to the world stay: the hover is the one cast on
\* the new store, every chunk it had to announce as loaded or updated is
\* stored and every chunk it had to announce as unloaded is not.
FailedSendStopsLoopSilently ==
    [][nevents' = nevents + 1 =>
           /\ panic' = FALSE
           /\ out' = [i \in 1 .. Min(proxy, Len(tried')) |-> tried'[i].event]
           /\ proxy' = proxy - Len(out')
           /\ hover' = RayCast(chunks', player'.ray)
           /\ \A i \in 1 .. Len(tried') :
                  /\ tried'[i].event.kind \in {"ChunkLoaded", "ChunkUpdated"}
                         => StoreContains(chunks', tried'[i].event.coords)
                  /\ (/\ tried'[i].event.kind = "ChunkUnloaded"
                      /\ last'.kind \in {"BlockPlaced", "BlockDestroyed"})
                         => ~StoreContains(chunks', tried'[i].event.coords)
           /\ (last'.kind \in {"BlockPlaced", "BlockDestroyed"} /\ tried' # <<>>)
                  => chunks' # chunks /\ actions' # actions]_vars

\* The receiver went away in the middle of the sends of an edit: the hover
\* was delivered, the chunk event behind it was not, and nothing panicked.
EditSendsCutShort ==
    /\ last.kind \in {"BlockPlaced", "BlockDestroyed"}
    /\ proxy = 0
    /\ panic = FALSE
    /\ out # <<>>
    /\ Len(out) < Len(tried)
    /\ out[1].kind = "BlockHovered"
    /\ tried[Len(out) + 1].event.kind \in {"ChunkLoaded", "ChunkUpdated", "ChunkUnloaded"}
    /\ actions # EmptyMap

-----------------------------------------------------------------------------
(* The loads of an initial render *)

\* The coordinates of the events of a kind in a sequence of events.
CoordsOf(events, kind) ==
    {events[i].coords : i \in {j \in 1 .. Len(events) : events[j].kind = kind}}

\* The stored chunks inside an area.
StoredIn(store, area) == {cc \in DOMAIN store : AreaContains(area, cc)}

\* C31: handling an InitialRenderRequested emits a ChunkLoaded for exactly
\* the coordinates inside the requested area whose chunk is in the store
\* after generation, the chunks stored before the request included, and for
\* no coordinate outside the area.
InitialRenderLoadsStoredArea ==
    [][last'.kind = "InitialRenderRequested" =>
           CoordsOf(out', "ChunkLoaded") = StoredIn(chunks', player'.curr)]_vars

-----------------------------------------------------------------------------
(* The chunks the viewer holds *)

\* The coordinates a viewer holds after it received the events in order: a
\* ChunkLoaded adds its coordinate, a ChunkUnloaded takes it away.
RECURSIVE Received(_, _)
Received(held, events) ==
    IF events = <<>> THEN held
    ELSE LET e == Head(events)
         IN  Received(CASE e.kind = "ChunkLoaded" -> held \cup {e.coords}
                        [] e.kind = "ChunkUnloaded" -> held \ {e.coords}
                        [] OTHER -> held,
                      Tail(events))

\* C32: in a session that starts with one InitialRenderRequested on an empty
\* store and whose sends all succeed, after every handled event the
\* coordinates the viewer received a ChunkLoaded for, with no ChunkUnloaded
\* after it, are the stored chunks inside the viewer's current area.  Stated
\* step by step: the viewer holds nothing before the session, holds the
\* stored chunks of its area before every later event, and every event's
\* sends take it to the stored chunks of the area the event leaves.
ViewerHoldsStoredArea ==
    [][Received(IF player.started THEN StoredIn(chunks, player.curr) ELSE {}, out')
           = StoredIn(chunks', player'.curr)]_vars

\* The viewer moved to the next chunk column in a world it had edited: chunks
\* were unloaded and loaded, and the emptied chunk of its area is not held.
ViewerMovedOverEditedWorld ==
    /\ last.kind = "WorldAreaChanged"
    /\ CoordsOf(out, "ChunkUnloaded") # {}
    /\ CoordsOf(out, "ChunkLoaded") # {}
    /\ actions # EmptyMap
    /\ \E cc \in DOMAIN actions : AreaContains(player.curr, cc) /\ ~StoreContains(chunks, cc)

-----------------------------------------------------------------------------
(* The chunk events of one handled event *)

\* The number of events of a kind in a sequence of events.
CountOf(events, kind) == Cardinality({i \in 1 .. Len(events) : events[i].kind = kind})

\* C33: the coordinates of the ChunkUnloaded, ChunkLoaded and ChunkUpdated
\* events of one handled event are pairwise disjoint, no coordinate occurs
\* twice in a kind, and every ChunkUpdated and ChunkLoaded coordinate is a
\* stored chunk inside the viewer's current area.
ChunkEventsDisjointAndStored ==
    LET unloaded == CoordsOf(out, "ChunkUnloaded")
        loaded == CoordsOf(out, "ChunkLoaded")
        updated == CoordsOf(out, "ChunkUpdated")
    IN  /\ unloaded \cap loaded = {}
        /\ unloaded \cap updated = {}
        /\ loaded \cap updated = {}
        /\ CountOf(out, "ChunkUnloaded") = Cardinality(unloaded)
        /\ CountOf(out, "ChunkLoaded") = Cardinality(loaded)
        /\ CountOf(out, "ChunkUpdated") = Cardinality(updated)
        /\ \A cc \in loaded \cup updated :
               StoreContains(chunks, cc) /\ AreaContains(player.curr, cc)

\* One event sent chunk events of the three kinds, two of them of one kind.
ThreeKindsOfChunkEventsSent ==
    /\ CountOf(out, "ChunkUnloaded") >= 1
    /\ CountOf(out, "ChunkLoaded") >= 1
    /\ CountOf(out, "ChunkUpdated") >= 1
    /\ \E kind \in {"ChunkUnloaded", "ChunkLoaded", "ChunkUpdated"} : CountOf(out, kind) >= 2

-----------------------------------------------------------------------------
(* What the events that are not edits leave alone *)

\* C34: InitialRenderRequested, WorldAreaChanged and BlockHoverRequested
\* remove no chunk from the store and change neither the ActionStore nor a
\* stored chunk; a chunk leaves the store only in an edit whose merge
\* emptied it; the chunks that leave the viewer's area get a ChunkUnloaded
\* and no other event.
OnlyEditsTouchStoredChunks ==
    [][/\ last'.kind \in {"InitialRenderRequested", "WorldAreaChanged", "BlockHoverRequested"}
           => /\ actions' = actions
              /\ \A cc \in DOMAIN chunks :
                     StoreContains(chunks', cc) /\ chunks'[cc] = chunks[cc]
       /\ \A cc \in (DOMAIN chunks) \ DOMAIN chunks' :
              /\ last'.kind \in {"BlockPlaced", "BlockDestroyed"}
              /\ actions'[cc] # ActionStoreActions(actions, cc)
              /\ ChunkIsEmpty(Regenerated(actions', cc))
       /\ last'.kind = "WorldAreaChanged"
           => \A i \in 1 .. Len(out') :
                  (/\ out'[i].kind # "BlockHovered"
                   /\ AreaContains(player'.prev, out'[i].coords)
                   /\ ~AreaContains(player'.curr, out'[i].coords))
                      => out'[i].kind = "ChunkUnloaded"]_vars

\* The viewer left chunks behind in a world with logged edits: they were
\* unloaded and are still stored.
LeftChunkUnloadedAndKept ==
    /\ last.kind = "WorldAreaChanged"
    /\ actions # EmptyMap
    /\ \E cc \in CoordsOf(out, "ChunkUnloaded") :
           StoreContains(chunks, cc) /\ ~AreaContains(player.curr, cc)

-----------------------------------------------------------------------------
(* The counters of a chunk *)

\* C35: after construction and any sequence of Chunk::apply and
\* Chunk::apply_unchecked calls, non_air_count is the number of voxels with a
\* non-air block and glowing_count the number of voxels with a light-emitting
\* block, no call takes a counter below zero, and is_empty() holds exactly
\* when every voxel is air; Chunk::apply returns true exactly when it changed
\* the voxel and leaves the chunk as it was when it returns false.
ChunkCountsExact ==
    /\ [](/\ last.chunk.non_air_count =
                 Cardinality({p \in ChunkPoints : last.chunk.blocks[p] # "Air"})
          /\ last.chunk.glowing_count =
                 Cardinality({p \in ChunkPoints : is_glowing(last.chunk.blocks[p])})
          /\ ChunkIsEmpty(last.chunk) <=> \A p \in ChunkPoints : last.chunk.blocks[p] = "Air")
    /\ [][LET prev == last.chunk.blocks[last'.coords]
              curr == last'.chunk.blocks[last'.coords]
          IN  /\ last.chunk.non_air_count - NonAir(prev) >= 0
              /\ last.chunk.glowing_count - Glowing(prev) >= 0
              /\ last'.kind = "Apply"
                  => /\ last'.returned <=> curr # prev
                     /\ ~last'.returned => last'.chunk = last.chunk]_vars

\* apply returned false on a chunk that holds glowing and other blocks, after
\* an apply_unchecked replaced a block by another block.
ApplyRefusedOnMixedChunk ==
    /\ last.kind = "Apply"
    /\ ~last.returned
    /\ last.action.kind = "Place"
    /\ last.chunk.glowing_count >= 2
    /\ last.chunk.non_air_count > last.chunk.glowing_count
    /\ \E p \in ChunkCells : last.chunk.blocks[p] \notin ChunkBlocks

-----------------------------------------------------------------------------
(* The counter of a ChunkLight *)

\* C36: after any sequence of ChunkLight::set and ChunkLight |= light,
\* non_zero_count is the number of voxels whose light is not zero, so
\* is_empty() holds exactly when every light is zero; set returns true
\* exactly when the stored value changed.
LightCountExact ==
    /\ [](/\ last.light.non_zero_count =
                 Cardinality({p \in ChunkPoints : last.light.lights[p] # 0})
          /\ ChunkLightIsEmpty(last.light) <=> \A p \in ChunkPoints : last.light.lights[p] = 0)
    /\ [][last'.kind = "Set"
              => /\ last'.light.lights[last'.coords] = last'.value
                 /\ last'.returned <=> last'.light.lights # last.light.lights]_vars

\* A voxel was set back to zero after a non-zero light was or-ed into all.
LightClearedAfterOr ==
    /\ last.kind = "Set"
    /\ last.returned
    /\ last.value = 0
    /\ last.light.non_zero_count = Cardinality(ChunkPoints) - 1
    /\ \E p \in ChunkPoints : last.light.lights[p] = MaxLightValue

-----------------------------------------------------------------------------
(* The deltas of a snapshot *)

\* C37: every delta a BlockArea is read or written with (the 27 deltas of
\* BlockArea::deltas, the six SIDE_DELTAS and every Edge1, Edge2 and Corner
\* entry of SIDE_CORNER_COMPONENT_DELTAS) has its components in -1..=1, so
\* the assertion of BlockArea::index holds and every bit access uses an index
\* in 0..27; distinct deltas have distinct indices.
DeltasIndexInRange ==
    /\ \A i \in 1 .. 3 : last.used.delta[i] \in -1 .. 1
    /\ last.kind = "Index" => last.asserted
    /\ last.kind \notin {"Panicked", "ScenePanicked"}
    /\ last.kind \in {"Index", "SceneIndex"}
           => /\ last.index # None
              /\ last.index[1] \in 0 .. 26
              /\ \A delta \in BlockAreaDeltas3 :
                     BlockAreaIndexUnchecked(delta) = last.index[1]
                         => delta = last.used.delta

\* The diagonal cell of a corner was indexed: the last bit of the snapshot.
DiagonalCellIndexedLast ==
    /\ last.kind = "Index"
    /\ last.used.table = "SIDE_CORNER_COMPONENT_DELTAS"
    /\ last.used.component = "Corner"
    /\ last.used.delta = <<1, 1, 1>>
    /\ last.index = <<26>>

-----------------------------------------------------------------------------
(* The end of a connection *)

\* C38: once the reader of a connection has seen the reset or the end of its
\* stream, the priority writer, the bulk writer and the reader of the
\* connection all end, under fair scheduling and with no further record from
\* the simulation, so that the accept loop can take the next connection.
DisconnectEndsAllThreeLoops ==
    \A c \in Connections :
        connections[c].detected
            ~> (/\ connections[c].priority_writer = "closed"
                /\ connections[c].writer = "closed"
                /\ connections[c].reader = "closed")

-----------------------------------------------------------------------------
(* The slots of a collected EnumMap *)

\* C39: EnumMap::from_iter returns a map only if the iterator gave a value
\* for every variant and panics otherwise; whatever the pairs, repeated
\* variants included, no returned map has a slot that was not written: the
\* count of the Guard is the number of distinct initialized variants.
FromIterReturnsWrittenSlots ==
    /\ last.guard.count = Cardinality({variant \in EnumVariants : last.guard.is_init[variant]})
    /\ last.kind = "Returned" => \A variant \in EnumVariants : last.guard.uninit[variant] # None
    /\ last.kind = "Panicked" => \E variant \in EnumVariants : last.guard.uninit[variant] = None

-----------------------------------------------------------------------------
(* The voxels one edit records *)

\* C40: within one edit request Branch::insert is never invoked twice for
\* the same voxel: the requested voxel and the cascaded voxel above it are
\* distinct and each is inserted once, so the unreachable!() of
\* Branch::insert is never reached.
EditInsertsEachVoxelOnce ==
    [][(last'.kind \in EditKinds /\ hover # None) =>
           LET p == EditTarget(last'.kind, hover)
               top == Add(p, VectorY)
               b == BranchApply(BranchDefault, chunks, p, hover[2], EditAction(last'))
               cascaded == /\ last'.kind = "BlockDestroyed"
                           /\ chunk_coords(p)[2] \in Y_RANGE
                           /\ valid_surface(StoreBlock(chunks, top)) # "None"
           IN  /\ ~b.branch.unreachable
               /\ top # p
               /\ BranchVoxels(b.branch) =
                      (IF b.ok THEN {p} ELSE {}) \cup (IF cascaded THEN {top} ELSE {})
               /\ \A v \in BranchVoxels(b.branch) :
                      b.branch.map[chunk_coords(v)][block_coords(v)] =
                          (IF v = p THEN EditAction(last') ELSE Destroy)]_vars

\* A Destroy recorded two actions in two chunks: the destroyed voxel is the
\* top row of its chunk and the block resting on it is in the chunk above.
CascadeCrossedChunks ==
    /\ last.kind = "BlockDestroyed"
    /\ panic = FALSE
    /\ \E cc \in DOMAIN actions : \E bc \in DOMAIN actions[cc] :
           LET top == Add(coords(cc, bc), VectorY)
           IN  /\ actions[cc][bc] = Destroy
               /\ chunk_coords(top) # cc
               /\ chunk_coords(top) \in DOMAIN actions
               /\ block_coords(top) \in DOMAIN actions[chunk_coords(top)]
               /\ actions[chunk_coords(top)][block_coords(top)] = Destroy
               /\ \E e \in 1 .. Len(out) :
                      out[e].kind = "ChunkUpdated" /\ out[e].coords = chunk_coords(top)

====
